---------------------------- MODULE Spec2Model ----------------------------
(***************************************************************************)
(* Turn pipeline (ChatService.sendMessage / sendMessageMockPath), remote   *)
(* client (LlmClientService) and protocol timeline store                   *)
(* (ModelContextService) of the multi-agent chatbot frontend.              *)
(*                                                                         *)
(* The specifications share the state:                                     *)
(*   Spec        : every state-changing public operation of ChatService    *)
(*                 and LlmClientService, with the timers and the remote    *)
(*                 call's outcomes of the turns in flight;                 *)
(*   FairSpec    : the steps of sendMessage and of its turns, under weak   *)
(*                 fairness of the timers and of the remote call's outcome;*)
(*   CancelSpec  : FairSpec with a caller that may unsubscribe;            *)
(*   UuidSpec    : the steps of sendMessage and of its turns with uuid()   *)
(*                 free to return a value again;                           *)
(*   ResubscribeSpec: one submission with a caller that may unsubscribe    *)
(*                 and may subscribe to the result again;                  *)
(*   RepeatSpec  : one submission with a caller that may subscribe to the  *)
(*                 result again, timers and the call's outcome fair;       *)
(*   ContentSpec : one submission of any of the texts, timers fair;        *)
(*   ResponseSpec: one submission answered with any of the response bodies;*)
(*   RosterSpec  : one submission with observers of the agent roster;      *)
(*   WatchSpec   : the turns' steps with a subscriber of the active         *)
(*                 conversation;                                           *)
(*   RecordsSpec : one submission of any of the texts, and the records of  *)
(*                 a local turn over evidence lists of every length;       *)
(*   RankSpec    : the dedup-and-rank block over candidate lists;          *)
(*   DescendingSpec: the same over candidate lists in mockRag's order;     *)
(*   StoreSpec   : the timeline store driven by direct calls of its public *)
(*                 interface (addProtocol, appendStep, watch, get) with    *)
(*                 turn identifiers as uuid() makes them;                  *)
(*   KeySpec     : the same with any key, those naming a member inherited  *)
(*                 from Object.prototype included.                         *)
(***************************************************************************)
EXTENDS Naturals, Integers, Sequences, FiniteSets, TLC

\* ---------------------------------------------------------------- bounds
MaxTurns == 2
\* subscriptions made to one result after the first
MaxResubscriptions == 1
MaxConvs == 2
MaxAgentSwitches == 1
MaxBackendSteps == 2
MaxDirectCalls == 1
MaxWatchers == 2
MaxLog == 3
MaxStoreSteps == 2
MaxHeld == 1
MaxCandidates == 3
MaxTextLen == 3
MaxRosters == 1
LongSnippetTens == 60

\* -------------------------------------------------------------------- text
\* a string is the sequence of its characters
Range(s) == {s[i] : i \in 1..Len(s)}

\* the sequences over S of length at most n
RECURSIVE SeqsUpTo(_, _)
SeqsUpTo(S, n) ==
  IF n = 0 THEN {<<>>}
  ELSE LET shorter == SeqsUpTo(S, n - 1)
       IN  shorter \cup {Append(s, x) : s \in shorter, x \in S}

\* safeContent = cleaned.slice(0, 4000)
ContentCap == 4000
\* cleaned.split(' ').slice(0, 10)
MaxQueryTokens == 10

LowerLetters ==
  <<"a", "b", "c", "d", "e", "f", "g", "h", "i", "j", "k", "l", "m",
    "n", "o", "p", "q", "r", "s", "t", "u", "v", "w", "x", "y", "z">>
UpperLetters ==
  <<"A", "B", "C", "D", "E", "F", "G", "H", "I", "J", "K", "L", "M",
    "N", "O", "P", "Q", "R", "S", "T", "U", "V", "W", "X", "Y", "Z">>
Digits == {"0", "1", "2", "3", "4", "5", "6", "7", "8", "9"}

\* the characters \s matches, as far as inputs use them
Whitespace == {" ", "\t", "\n"}
\* the characters \w matches
WordChars == Range(LowerLetters) \cup Range(UpperLetters) \cup Digits \cup {"_"}
\* the characters [a-z0-9\s-] matches
KeywordChars == Range(LowerLetters) \cup Digits \cup Whitespace \cup {"-"}

\* String.prototype.toLowerCase on the letters A-Z
ToLowerCase(s) ==
  [i \in 1..Len(s) |->
     IF \E k \in DOMAIN UpperLetters : UpperLetters[k] = s[i]
       THEN LowerLetters[CHOOSE k \in DOMAIN UpperLetters : UpperLetters[k] = s[i]]
       ELSE s[i]]

\* replace(/\s+/g, ' '): every maximal run of whitespace becomes one space
CollapseWhitespace(s) ==
  LET marked == [i \in 1..Len(s) |->
                   [c |-> IF s[i] \in Whitespace THEN " " ELSE s[i],
                    inRun |-> /\ s[i] \in Whitespace
                              /\ i > 1
                              /\ s[i - 1] \in Whitespace]]
      kept == SelectSeq(marked, LAMBDA m : ~m.inRun)
  IN  [i \in 1..Len(kept) |-> kept[i].c]

\* String.prototype.trim
Trim(s) ==
  LET solid == SelectSeq([i \in 1..Len(s) |-> i],
                         LAMBDA i : s[i] \notin Whitespace)
  IN  IF solid = <<>> THEN <<>>
      ELSE SubSeq(s, solid[1], solid[Len(solid)])

\* slice(0, n) of a string or an array
Slice(s, n) == SubSeq(s, 1, IF n < Len(s) THEN n ELSE Len(s))

\* the sanitization of sendMessage: collapse whitespace, trim, cut at the cap
Sanitize(content) ==
  Slice(Trim(CollapseWhitespace(content)), ContentCap)

\* the alternatives of the filler pattern
Fillers ==
  { <<"p", "l", "e", "a", "s", "e">>,
    <<"k", "i", "n", "d", "l", "y">>,
    <<"c", "a", "n", " ", "y", "o", "u">>,
    <<"c", "o", "u", "l", "d", " ", "y", "o", "u">>,
    <<"w", "o", "u", "l", "d", " ", "y", "o", "u">>,
    <<"t", "h", "a", "n", "k", "s">>,
    <<"t", "h", "a", "n", "k", " ", "y", "o", "u">> }

\* \b(filler)\b matches f at position i of s
MatchAt(s, f, i) ==
  /\ i + Len(f) - 1 <= Len(s)
  /\ s[i] = f[1]
  /\ SubSeq(s, i, i + Len(f) - 1) = f
  /\ i = 1 \/ s[i - 1] \notin WordChars
  /\ i + Len(f) - 1 = Len(s) \/ s[i + Len(f)] \notin WordChars

\* the positions, in order, where the filler pattern matches in s (no two
\* alternatives overlap, so the matches of one left-to-right pass are all
\* the places where an alternative matches)
FillerStarts(s) ==
  SelectSeq([i \in 1..Len(s) |-> i],
            LAMBDA i : \E f \in Fillers : MatchAt(s, f, i))

ContainsFiller(s) == FillerStarts(s) # <<>>

\* split(' ')
Split(s) ==
  LET sp == SelectSeq([i \in 1..Len(s) |-> i], LAMBDA i : s[i] = " ")
      cut == <<0>> \o sp \o <<Len(s) + 1>>
  IN  [k \in 1..(Len(sp) + 1) |-> SubSeq(s, cut[k] + 1, cut[k + 1] - 1)]

\* join(' ')
RECURSIVE Join(_)
Join(tokens) ==
  IF tokens = <<>> THEN <<>>
  ELSE IF Len(tokens) = 1 THEN tokens[1]
  ELSE tokens[1] \o <<" ">> \o Join(Tail(tokens))

\* rewriteQueryForRetrieval: lower-case, delete the filler phrases, blank
\* what is not a letter, digit, whitespace or hyphen, collapse, trim, keep the
\* first ten tokens
RewriteQueryForRetrieval(text) ==
  LET lower == ToLowerCase(text)
      starts == FillerStarts(lower)
      marked == [k \in 1..Len(lower) |->
                   [c |-> lower[k],
                    del |-> \E j \in 1..Len(starts) :
                              /\ starts[j] <= k
                              /\ \E f \in Fillers :
                                   /\ k < starts[j] + Len(f)
                                   /\ MatchAt(lower, f, starts[j])]]
      kept == SelectSeq(marked, LAMBDA m : ~m.del)
      plain == [k \in 1..Len(kept) |->
                  IF kept[k].c \in KeywordChars THEN kept[k].c ELSE " "]
      cleaned == Trim(CollapseWhitespace(plain))
  IN  Join(Slice(Split(cleaned), MaxQueryTokens))

\* reformulated || safeContent
RetrievalQuery(reformulated, safeContent) ==
  IF reformulated # <<>> THEN reformulated ELSE safeContent

\* ------------------------------------------------------------------ inputs
\* the texts submitted where only the turns' control matters
ShortTexts == {<<"h", "i">>}

\* every text of up to MaxTextLen characters over a letter and two
\* whitespace characters
SmallTexts == SeqsUpTo({"a", " ", "\t"}, MaxTextLen)

\* texts around the filler phrases and the token cut
PhraseTexts ==
  { <<"p", "l", "e", "a", "s", "e">>,
    <<"P", "l", "e", "a", "s", "e", " ", "e", "x", "p", "l", "a", "i", "n",
      " ", "R", "A", "G">>,
    <<"c", "a", "n", " ", "y", "o", "u", " ", "h", "e", "l", "p", " ", "m",
      "e">>,
    <<"c", "a", "n", " ", "p", "l", "e", "a", "s", "e", " ", "y", "o", "u",
      " ", "h", "e", "l", "p">>,
    <<"T", "h", "a", "n", "k", "s", ",", " ", "w", "h", "a", "t", " ", "i",
      "s", " ", "R", "A", "G", "?">>,
    <<"a", " ", "b", " ", "c", " ", "d", " ", "e", " ", "f", " ", "g", " ",
      "h", " ", "i", " ", "j", " ", "k", " ", "l">>,
    <<"p", "l", "e", "a", "s", "e", " ", "p", "l", "e", "a", "s", "e", " ",
      "p", "l", "e", "a", "s", "e", " ", "p", "l", "e", "a", "s", "e", " ",
      "p", "l", "e", "a", "s", "e", " ", "p", "l", "e", "a", "s", "e", " ",
      "p", "l", "e", "a", "s", "e", " ", "p", "l", "e", "a", "s", "e", " ",
      "p", "l", "e", "a", "s", "e", " ", "p", "l", "e", "a", "s", "e", " ",
      "t", "h", "a", "n", "k", "s">> }

\* texts one character longer than the cap, without and with a space as the
\* cap's character
CapTexts ==
  { [i \in 1..(ContentCap + 1) |-> "a"],
    [i \in 1..(ContentCap + 1) |-> IF i = ContentCap THEN " " ELSE "a"] }

\* the texts submitted where the text matters
Texts == SmallTexts \cup PhraseTexts \cup CapTexts

\* the functions of the text, tabulated over the texts submitted
SanitizeOf == [c \in ShortTexts \cup Texts |-> Sanitize(c)]
SafeTexts == {SanitizeOf[c] : c \in ShortTexts \cup Texts}
ReformulatedOf == [s \in SafeTexts |-> RewriteQueryForRetrieval(s)]

TurnIds == 1..MaxTurns

\* a key that names a member every object inherits from Object.prototype
\* ('constructor'; 'toString' and '__proto__' act alike): the store's map is
\* a plain {} and reads it as that member. uuid() never returns such a key
InheritedKeys == {MaxTurns + 1}

\* the keys the store's public interface is called with
StoreKeys == TurnIds \cup InheritedKeys
Watchers == 1..MaxWatchers

AgentIds == {"planner", "researcher", "writer"}
\* values handed to setActiveAgent; "" is the falsy id replaced by 'writer'
AgentInputs == {"researcher", ""}

\* items of a backend response's protocol array: a step object without type
\* or actor, one of type 'error' without actor, one of type 'route' whose
\* actor is the planner, or a null element
BackendItems == {"notype", "error", "route", "null"}

VARIABLES
  configured,            \* !!environment.LLM_API_URL
  protocols,             \* ModelContextService.protocols$.value
  watchers,              \* subscriptions made through watch()
  lastCall,              \* the last direct call of the store's interface
  held,                  \* values get() returned that the caller still holds
  ranked,                \* the last candidate list ranked, with its evidence
  rosters,               \* what getAgents() and watchActiveAgent() handed out
  watched,               \* a subscription made through watchActiveConversation()
  conversations,         \* ChatService.conversations$.value, newest first
  activeConversationId,  \* ChatService.activeConversationId$.value
  activeAgentId,         \* ChatService.activeAgentId$.value
  agentSwitches,         \* number of setActiveAgent calls so far
  agents,                \* ChatService.agents: status per agent
  turn,                  \* per turn: closure and observable chain of sendMessage
                         \* (llm: res.llm as the first tap received it)
  nextTurn,              \* next identifier uuid() hands out for a turn
  httpRequests,          \* HTTP posts issued so far
  directCalls            \* results of direct chatCompletions calls

vars == <<configured, rosters, watched, protocols, watchers, lastCall, held, ranked,
          conversations,
          activeConversationId, activeAgentId, agentSwitches, agents, turn,
          nextTurn, httpRequests, directCalls>>

chatVars == <<conversations, activeConversationId, activeAgentId,
              agentSwitches, agents, turn, nextTurn, httpRequests,
              directCalls>>

\* ------------------------------------------------- ModelContextService
\* curr[turnId] of the store's map: undefined (NoTurn), the protocol object
\* the store created (exists), or a member inherited from Object.prototype
\* (member: truthy, and without steps)
NoTurn == [exists |-> FALSE, member |-> FALSE, steps |-> <<>>]
EmptyTimeline == [exists |-> TRUE, member |-> FALSE, steps |-> <<>>]
InheritedMember == [exists |-> FALSE, member |-> TRUE, steps |-> <<>>]

\* the store's initial map: {}
EmptyStore ==
  [k \in StoreKeys |-> IF k \in InheritedKeys THEN InheritedMember ELSE NoTurn]

\* !curr[turnId] is false for that entry
Truthy(entry) == entry.exists \/ entry.member

\* a protocol step; query and items are its retrieval part, empty without
\* one, contextWindow its packed context, empty without one; packedItems is
\* input.fields.packedItems, output is output.text and model the model-call
\* info, each <<value>> or <<>> when the step has none
Step(type, actor, note) ==
  [type |-> type, actor |-> actor, note |-> note, query |-> <<>>,
   items |-> <<>>, contextWindow |-> <<>>, packedItems |-> <<>>,
   output |-> <<>>, model |-> <<>>]

\* addProtocol: creates the empty timeline when absent and calls next() once;
\* map is the new store value, out the values passed to next(), in order
AddProtocol(p, turnId) ==
  IF ~Truthy(p[turnId])
    THEN LET q == [p EXCEPT ![turnId] = EmptyTimeline]
         IN  [map |-> q, out |-> <<q>>]
    ELSE [map |-> p, out |-> <<>>]

\* appendStep that assigns [step] instead of spreading the old steps
AppendStepReplace(p, turnId, step) ==
  LET a == IF ~Truthy(p[turnId]) THEN AddProtocol(p, turnId)
                                 ELSE [map |-> p, out |-> <<>>]
      q == [a.map EXCEPT ![turnId].steps = <<step>>]
  IN  IF ~a.map[turnId].exists
        THEN [map |-> a.map, out |-> a.out, threw |-> TRUE]
        ELSE [map |-> q, out |-> Append(a.out, q), threw |-> FALSE]

\* appendStep: addProtocol when !curr[turnId], then steps = [...steps, step],
\* next(). An inherited member is truthy and has no steps: addProtocol is
\* skipped and spreading undefined throws a TypeError before anything is
\* assigned
AppendStep(p, turnId, step) ==
  LET a == IF ~Truthy(p[turnId]) THEN AddProtocol(p, turnId)
                                 ELSE [map |-> p, out |-> <<>>]
      q == [a.map EXCEPT ![turnId].steps = Append(@, step)]
  IN  IF ~a.map[turnId].exists
        THEN [map |-> a.map, out |-> a.out, threw |-> TRUE]
        ELSE [map |-> q, out |-> Append(a.out, q), threw |-> FALSE]

\* get: protocols$.value[turnId], own or inherited
Get(p, turnId) == p[turnId]

\* the inner subscription of watch(): every value of protocols$ is mapped to
\* map[turnId] and handed to the subscriber
Deliver(ws, out) ==
  [w \in Watchers |->
     IF ws[w].active
       THEN [ws[w] EXCEPT !.log =
               @ \o [i \in 1..Len(out) |-> out[i][ws[w].turnId]]]
       ELSE ws[w]]

NoStep == Step("none", "none", "none")

NoCall == [op |-> "none", turnId |-> 0, existed |-> FALSE, step |-> NoStep,
           threw |-> FALSE]

LogRoom(n) == \A w \in Watchers : Len(watchers[w].log) + n <= MaxLog

StoreStepInputs == {Step("plan", "planner", "x"), Step("tool", "writer", "y")}

AddProtocolCall(turnId) ==
  /\ LogRoom(1)
  /\ LET a == AddProtocol(protocols, turnId)
     IN  /\ protocols' = a.map
         /\ watchers' = Deliver(watchers, a.out)
  /\ lastCall' = [op |-> "addProtocol", turnId |-> turnId,
                  existed |-> protocols[turnId].exists, step |-> NoStep,
                  threw |-> FALSE]
  /\ UNCHANGED <<configured, rosters, watched, held, ranked, chatVars>>

AppendStepCall(turnId, step) ==
  /\ LogRoom(2)
  /\ Len(protocols[turnId].steps) < MaxStoreSteps
  /\ \E a \in {AppendStep(protocols, turnId, step)} :
       /\ protocols' = a.map
       /\ watchers' = Deliver(watchers, a.out)
       /\ lastCall' = [op |-> "appendStep", turnId |-> turnId,
                       existed |-> protocols[turnId].exists, step |-> step,
                       threw |-> a.threw]
  /\ UNCHANGED <<configured, rosters, watched, held, ranked, chatVars>>

\* watch(turnId).subscribe: the BehaviorSubject replays its current value
WatchCall(w, turnId) ==
  /\ ~watchers[w].active
  /\ watchers[w].log = <<>>
  /\ watchers' = [watchers EXCEPT ![w] =
                    [active |-> TRUE, turnId |-> turnId,
                     log |-> <<protocols[turnId]>>]]
  /\ lastCall' = [op |-> "watch", turnId |-> turnId,
                  existed |-> protocols[turnId].exists, step |-> NoStep,
                  threw |-> FALSE]
  /\ UNCHANGED <<configured, rosters, watched, protocols, held, ranked, chatVars>>

\* get(turnId), the caller keeping what it returned: for an existing turn the
\* store's own protocol object (ref names it, steps is what it held at the
\* return), for an absent turn undefined, for an inherited key that member
GetCall(turnId) ==
  /\ Cardinality(held) < MaxHeld
  /\ LET v == Get(protocols, turnId)
     IN  held' = held \cup {[ref |-> turnId, defined |-> Truthy(v),
                             steps |-> v.steps]}
  /\ lastCall' = [op |-> "get", turnId |-> turnId,
                  existed |-> protocols[turnId].exists, step |-> NoStep,
                  threw |-> FALSE]
  /\ UNCHANGED <<configured, rosters, watched, protocols, watchers, ranked, chatVars>>

\* ------------------------------------------------------------ initial state
WelcomeMessage == [role |-> "agent", turnId |-> 0, agentId |-> "planner"]

NoTurnState == [pc |-> "unused", start |-> "unused", again |-> <<>>,
                turnId |-> 0, convId |-> 0, agentId |-> "",
                remote |-> "none", obs |-> <<>>, unsub |-> FALSE,
                events |-> <<>>, llm |-> <<>>,
                content |-> <<>>, safeContent |-> <<>>, reformulated |-> <<>>]

Init ==
  /\ configured \in BOOLEAN
  /\ protocols = EmptyStore
  /\ watchers = [w \in Watchers |->
                   [active |-> FALSE, turnId |-> 0, log |-> <<>>]]
  /\ lastCall = NoCall
  /\ held = {}
  /\ ranked = <<>>
  /\ rosters = <<>>
  /\ watched = [subscribed |-> FALSE, latest |-> <<>>]
  /\ conversations = << [id |-> 1, title |-> "Welcome", createdAt |-> 0,
                         agentId |-> "planner",
                         messages |-> <<WelcomeMessage>>] >>
  /\ activeConversationId = 1
  /\ activeAgentId = "planner"
  /\ agentSwitches = 0
  /\ agents = [a \in AgentIds |-> "idle"]
  /\ turn = [t \in TurnIds |-> NoTurnState]
  /\ nextTurn = 1
  /\ httpRequests = 0
  /\ directCalls = <<>>

\* ------------------------------------------------------- LlmClientService
\* isConfigured that ignores the base URL
IsConfiguredAlways == TRUE

\* isConfigured: true when a base URL is present
IsConfigured == configured

\* chatCompletions: throwError when unconfigured, else the HTTP post
ChatCompletions == IF ~IsConfigured THEN "throw: not configured" ELSE "post"

\* ---------------------------------------------------------------- retrieval
\* .slice(0, 5) of the ranked chunks
TopK == 5

\* base score minus i * 0.025 as the double the subtraction yields: milli
\* thousandths, off by a residue of that sign (0.88 - 0.025 is
\* 0.85499999999999998, 0.77 - 3 * 0.025 is 0.69500000000000006)
DecayedScores ==
  << [milli |-> 920, residue |-> 1], [milli |-> 855, residue |-> -1],
     [milli |-> 760, residue |-> 1], [milli |-> 695, residue |-> 1] >>

\* +x.toFixed(2), in hundredths: the nearest hundredth, the larger on a tie
ToFixed2(x) ==
  LET d == x.milli % 10
      up == d > 5 \/ (d = 5 /\ x.residue >= 0)
  IN  (x.milli \div 10) + (IF up THEN 1 ELSE 0)

BaseChunks ==
  << [title |-> <<"R", "A", "G", " ", "O", "v", "e", "r", "v", "i", "e", "w">>,
      source |-> <<"d", "o", "c", "s", "/", "g", "u", "i", "d", "e", ".", "m", "d">>,
      snippet |-> "RAG combines retrieval with generation to ground responses."],
     [title |-> <<"A", "g", "e", "n", "t", " ", "C", "o", "l", "l", "a", "b", "o", "r", "a", "t", "i", "o", "n">>,
      source |-> <<"b", "l", "o", "g", "/", "a", "g", "e", "n", "t", "s">>,
      snippet |-> "Planner, Researcher, and Writer coordinate to answer complex queries."],
     [title |-> <<"C", "o", "n", "t", "e", "x", "t", " ", "W", "i", "n", "d", "o", "w", "s">>,
      source |-> <<"k", "b", "/", "c", "o", "n", "t", "e", "x", "t">>,
      snippet |-> "Efficient context packing improves factual grounding."],
     [title |-> <<"A", "n", "s", "w", "e", "r", " ", "Q", "u", "a", "l", "i", "t", "y">>,
      source |-> <<"k", "b", "/", "e", "v", "a", "l", "u", "a", "t", "i", "o", "n">>,
      snippet |-> "Grounded responses cite evidence and include caveats when needed."] >>

\* mockRag: the four base chunks, each snippet followed by the echo of the
\* trimmed query's first 48 characters, each score decayed by its rank; a
\* score is <<hundredths>>, or <<>> when undefined
MockRag(query) ==
  LET q == Trim(query)
  IN  [i \in 1..Len(BaseChunks) |->
         [title |-> BaseChunks[i].title,
          source |-> BaseChunks[i].source,
          snippet |-> [base |-> BaseChunks[i].snippet, echo |-> Slice(q, 48),
                       ellipsis |-> Len(q) > 48],
          score |-> <<ToFixed2(DecayedScores[i])>>]]

\* the deduplication key compared as written, without lower-casing
ChunkKeyExact(c) == IF c.title # <<>> THEN c.title ELSE c.source

\* (c.title || c.source || '').toLowerCase()
ChunkKey(c) == ToLowerCase(IF c.title # <<>> THEN c.title ELSE c.source)

\* the filter over the seen set: a chunk is kept when its key is new
RECURSIVE DedupFilter(_, _)
DedupFilter(chunks, seen) ==
  IF chunks = <<>> THEN <<>>
  ELSE LET key == ChunkKey(Head(chunks))
       IN  IF key \in seen THEN DedupFilter(Tail(chunks), seen)
           ELSE <<Head(chunks)>> \o DedupFilter(Tail(chunks), seen \cup {key})

\* score ?? 0
ScoreOrZero(c) == IF c.score = <<>> THEN 0 ELSE c.score[1]

\* c placed behind the chunks that score at least as much
InsertByScore(sorted, c) ==
  LET n == Cardinality({i \in 1..Len(sorted) :
                          ScoreOrZero(sorted[i]) >= ScoreOrZero(c)})
  IN  SubSeq(sorted, 1, n) \o <<c>> \o SubSeq(sorted, n + 1, Len(sorted))

\* sort((a, b) => (b.score ?? 0) - (a.score ?? 0)): descending and stable
RECURSIVE SortByScore(_)
SortByScore(chunks) ==
  IF chunks = <<>> THEN <<>>
  ELSE InsertByScore(SortByScore(SubSeq(chunks, 1, Len(chunks) - 1)),
                     chunks[Len(chunks)])

\* the second tap's block with a filter that keeps, of the chunks with one
\* key, the last instead of the first
DedupRankKeepLast(chunksRaw) ==
  LET Reversed(cs) == [i \in 1..Len(cs) |-> cs[Len(cs) + 1 - i]]
  IN  Slice(SortByScore(Reversed(DedupFilter(Reversed(chunksRaw), {}))), TopK)

\* the second tap's filter and slice, without the sort between them
DedupRankUnsorted(chunksRaw) == Slice(DedupFilter(chunksRaw, {}), TopK)

\* the second tap's filter, sort and slice
DedupRank(chunksRaw) == Slice(SortByScore(DedupFilter(chunksRaw, {})), TopK)

\* the evidence of a turn, tabulated over the queries of the texts submitted
EvidenceOf ==
  [q \in {RetrievalQuery(ReformulatedOf[s], s) : s \in SafeTexts} |->
     DedupRank(MockRag(q))]

\* ------------------------------------------------------------------ packing
\* rag.chunks.slice(0, 3) of the context window
PackedChunks == 3

Min(a, b) == IF a < b THEN a ELSE b

SystemText == "You are a helpful, precise assistant. Cite evidence concisely."

\* a chunk without snippet text of its own
NoSnippet == [base |-> "", echo |-> <<>>, ellipsis |-> FALSE]

\* the length of `${base} [q:${echo}${ellipsis ? '…' : ''}]`
SnippetLength(snippet) ==
  Len(snippet.base) + 4 + Len(snippet.echo)
    + (IF snippet.ellipsis THEN 1 ELSE 0) + 1

\* ch.title ?? ch.source, an absent title being <<>>
TitleOrSource(ch) == IF ch.title # <<>> THEN ch.title ELSE ch.source

\* the context window with every chunk of the evidence, not the first three
ContextItemsAll(safeContent, chunks) ==
  << [type |-> "system",
      text |-> [lead |-> SystemText, body |-> <<>>, snippet |-> NoSnippet],
      tokens |-> 16, origin |-> <<"s", "y", "s", "t", "e", "m">>],
     [type |-> "history",
      text |-> [lead |-> "User: ", body |-> safeContent, snippet |-> NoSnippet],
      tokens |-> Min(24 + (Len(safeContent) \div 3), 256),
      origin |-> <<"u", "s", "e", "r">>] >>
  \o [i \in 1..Len(chunks) |->
        [type |-> "retrieval",
         text |-> [lead |-> "[", body |-> TitleOrSource(chunks[i]),
                   snippet |-> chunks[i].snippet],
         tokens |-> Min(60 + (SnippetLength(chunks[i].snippet) \div 4), 200),
         origin |-> chunks[i].source]]

\* the context window whose estimates have no ceiling
ContextItemsUnclamped(safeContent, chunks) ==
  LET top == Slice(chunks, PackedChunks)
  IN  << [type |-> "system",
          text |-> [lead |-> SystemText, body |-> <<>>, snippet |-> NoSnippet],
          tokens |-> 16, origin |-> <<"s", "y", "s", "t", "e", "m">>],
         [type |-> "history",
          text |-> [lead |-> "User: ", body |-> safeContent,
                    snippet |-> NoSnippet],
          tokens |-> 24 + (Len(safeContent) \div 3),
          origin |-> <<"u", "s", "e", "r">>] >>
      \o [i \in 1..Len(top) |->
            [type |-> "retrieval",
             text |-> [lead |-> "[", body |-> TitleOrSource(top[i]),
                       snippet |-> top[i].snippet],
             tokens |-> 60 + (SnippetLength(top[i].snippet) \div 4),
             origin |-> top[i].source]]

\* contextItems of the second tap: the system item, the history item with
\* the user's text, and one retrieval item `[${title ?? source}] ${snippet}`
\* per chunk of rag.chunks.slice(0, 3), each with its token estimate
ContextItems(safeContent, chunks) ==
  LET top == Slice(chunks, PackedChunks)
  IN  << [type |-> "system",
          text |-> [lead |-> SystemText, body |-> <<>>, snippet |-> NoSnippet],
          tokens |-> 16, origin |-> <<"s", "y", "s", "t", "e", "m">>],
         [type |-> "history",
          text |-> [lead |-> "User: ", body |-> safeContent,
                    snippet |-> NoSnippet],
          tokens |-> Min(24 + (Len(safeContent) \div 3), 256),
          origin |-> <<"u", "s", "e", "r">>] >>
      \o [i \in 1..Len(top) |->
            [type |-> "retrieval",
             text |-> [lead |-> "[", body |-> TitleOrSource(top[i]),
                       snippet |-> top[i].snippet],
             tokens |-> Min(60 + (SnippetLength(top[i].snippet) \div 4), 200),
             origin |-> top[i].source]]

\* ---------------------------------------------------------- backend payload
\* the value of a field of the response body; Undefined is an absent field
Undefined == [type |-> "undefined", num |-> 0, chars |-> <<>>]
Null == [type |-> "null", num |-> 0, chars |-> <<>>]
Num(n) == [type |-> "number", num |-> n, chars |-> <<>>]
Str(chars) == [type |-> "string", num |-> 0, chars |-> chars]
Bool(b) == [type |-> "boolean", num |-> IF b THEN 1 ELSE 0, chars |-> <<>>]

DigitChars == <<"0", "1", "2", "3", "4", "5", "6", "7", "8", "9">>

RECURSIVE DecimalValue(_)
DecimalValue(ds) ==
  IF ds = <<>> THEN 0
  ELSE 10 * DecimalValue(SubSeq(ds, 1, Len(ds) - 1))
         + (CHOOSE n \in 0..9 : DigitChars[n + 1] = ds[Len(ds)])

\* Number(v): <<n>>, or <<>> for NaN. null is 0, a boolean 1 or 0, a string
\* that is empty or blank 0, a string of digits its value, any other string
\* of the model and undefined NaN
ToNumber(v) ==
  CASE v.type = "number" -> <<v.num>>
    [] v.type = "null" -> <<0>>
    [] v.type = "boolean" -> <<v.num>>
    [] v.type = "string" ->
         LET t == Trim(v.chars)
         IN  IF t = <<>> THEN <<0>>
             ELSE IF \A i \in 1..Len(t) : t[i] \in Digits
               THEN <<DecimalValue(t)>>
             ELSE <<>>
    [] OTHER -> <<>>

\* toNumberOrUndefined: Number(v) when finite and not NaN, else undefined
\* (<<>>); every number of the model is finite
ToNumberOrUndefined(v) ==
  LET n == ToNumber(v)
  IN  IF n # <<>> THEN n ELSE <<>>

\* toNumberRecord: the keys whose value converts, with the number as the
\* fraction <<n, 1>>; obj is a function of its keys, empty when absent, and
\* the empty result is undefined
ToNumberRecord(obj) ==
  [k \in {j \in DOMAIN obj : ToNumberOrUndefined(obj[j]) # <<>>} |->
     <<ToNumberOrUndefined(obj[k])[1], 1>>]

\* response bodies without model-call info, and without token counts
NoLlm == <<>>
NoTokens == [prompt |-> Undefined, completion |-> Undefined,
             total |-> Undefined]

\* normLlm of the first tap: llm is <<>> when the response has none, else
\* <<[model, params, tokens, latencyMs]>>
NormLlm(llm) ==
  IF llm = <<>> THEN <<>>
  ELSE << [model |-> llm[1].model,
           params |-> ToNumberRecord(llm[1].params),
           tokens |-> [prompt |-> ToNumberOrUndefined(llm[1].tokens.prompt),
                       completion |->
                         ToNumberOrUndefined(llm[1].tokens.completion),
                       total |-> ToNumberOrUndefined(llm[1].tokens.total)],
           latencyMs |-> ToNumberOrUndefined(llm[1].latencyMs)] >>

\* res.content || '(no content)'
NoContentText ==
  <<"(", "n", "o", " ", "c", "o", "n", "t", "e", "n", "t", ")">>
\* a reply's content is a record: [text] for a text the backend sent, the
\* variable parts of the template for a locally generated one
ContentOrDefault(content) ==
  [text |-> IF content # <<>> THEN content ELSE NoContentText]

\* -------------------------------------------------------------- generation
\* setTimeout(..., 900) of the generation
GenerationDelay == 900
\* tokens.completion of the simulated model call
CompletionTokens == 160

\* params of the simulated model call, as fractions: 0.3, 512, 1.0
MockParams ==
  [temperature |-> <<3, 10>>, max_tokens |-> <<512, 1>>, top_p |-> <<1, 1>>]

\* contextItems.reduce((acc, it) => acc + (it.tokens ?? 50), 0); every item
\* of the model has its estimate
RECURSIVE PromptTokens(_)
PromptTokens(contextItems) ==
  IF contextItems = <<>> THEN 0
  ELSE Head(contextItems).tokens + PromptTokens(Tail(contextItems))

\* Date.now() - start as the generation callback measures it: a number the
\* clock, the timer and the event loop decide (899, 903, 1145, ...), of which
\* the program knows nothing more. The callback writes it into llmInfo and
\* no statement reads it back, so the steps of the program keep it as the
\* one unknown it is; the callback itself takes any number
Elapsed == [ms |-> "Date.now() - start"]

\* tokens of llmInfo: promptTokens, the fixed completion count, their sum
LlmTokens(contextItems) ==
  [prompt |-> <<PromptTokens(contextItems)>>,
   completion |-> <<CompletionTokens>>,
   total |-> <<PromptTokens(contextItems) + CompletionTokens>>]

\* llmInfo of the generation callback, with those token counts and the
\* latency it measured
LlmInfo(tokens, latency) ==
  [model |-> "mock-gpt-4o-mini",
   params |-> MockParams,
   tokens |-> tokens,
   latencyMs |-> <<latency>>]

\* the persona's preface and style line
Preface(agentId) ==
  IF agentId = "planner" THEN "Plan of action"
  ELSE IF agentId = "researcher" THEN "Evidence-based findings"
  ELSE "Synthesis"

StyleHint(agentId) ==
  IF agentId = "planner" THEN "I will outline steps and responsibilities."
  ELSE IF agentId = "researcher"
    THEN "I will emphasize sources and confidence."
  ELSE "I will keep the explanation concise and practical."

\* generateReplyTailored: the parts of the template that vary: the preface,
\* the trimmed request, one evidence line `${title ?? source}: ${snippet}`
\* for each of the first three chunks (none: the placeholder line), the
\* style line
\* generateReplyTailored that lists every chunk, not the first three
GenerateReplyTailoredAllChunks(userText, rag, agentId) ==
  [preface |-> Preface(agentId),
   ask |-> Trim(userText),
   bullets |-> [i \in 1..Len(rag.chunks) |->
                  [label |-> TitleOrSource(rag.chunks[i]),
                   snippet |-> rag.chunks[i].snippet]],
   styleHint |-> StyleHint(agentId)]

\* generateReplyTailored whose evidence lines depend on the persona: the
\* researcher lists every chunk, the others the first three
GenerateReplyTailoredByPersona(userText, rag, agentId) ==
  LET top == IF agentId = "researcher" THEN rag.chunks
             ELSE Slice(rag.chunks, PackedChunks)
  IN  [preface |-> Preface(agentId),
       ask |-> Trim(userText),
       bullets |-> [i \in 1..Len(top) |->
                      [label |-> TitleOrSource(top[i]),
                       snippet |-> top[i].snippet]],
       styleHint |-> StyleHint(agentId)]

GenerateReplyTailored(userText, rag, agentId) ==
  LET top == Slice(rag.chunks, PackedChunks)
  IN  [preface |-> Preface(agentId),
       ask |-> Trim(userText),
       bullets |-> [i \in 1..Len(top) |->
                      [label |-> TitleOrSource(top[i]),
                       snippet |-> top[i].snippet]],
       styleHint |-> StyleHint(agentId)]

\* ------------------------------------------------------------ ChatService
\* the plan step of a turn sent to the backend, with its fixed output text
RemotePlanStep ==
  [Step("plan", "planner", "delegated to backend") EXCEPT
     !.output = <<[text |-> "Send to LLM backend with optional RAG."]>>]
\* the plan step of the local path; its output text is the fixed plan (its
\* bullet signs written as commas) followed by the reformulated query in
\* quotes
LocalPlanStep(reformulated) ==
  [Step("plan", "planner", "refined the query") EXCEPT
     !.output = <<[text |-> "Plan: retrieve, pack, generate. Reformulated query: ",
                   reformulated |-> reformulated]>>]
ErrorStep == Step("error", "backend", "Backend error")
\* the route step of the first tap, with its fixed output text
RouteStep ==
  [Step("route", "planner", "routed subtasks") EXCEPT
     !.output =
       <<[text |-> "Delegate retrieval to Researcher and writing to Writer."]>>]
RetrieveStep(query, chunks) ==
  [Step("retrieve", "researcher", "retrieved") EXCEPT
     !.query = query, !.items = chunks]
PackStep(contextItems) ==
  [Step("pack", "planner", "packed") EXCEPT !.contextWindow = contextItems]
\* the generate step of the timer callback, for the reply just pushed and the
\* context items of the closure
GenerateStep(reply, contextItems) ==
  [Step("generate", "writer", "LLM produced response") EXCEPT
     !.packedItems = <<Len(contextItems)>>,
     !.output = <<reply.content>>,
     !.model = reply.llm]

\* what a handler of a turn did, in the order of its statements: a
\* setAgentState call, an appendStep call, a pushMessage call
AgentEvent(agentId, status) ==
  [kind |-> "agent", who |-> agentId, what |-> status]
StepEvent(step) == [kind |-> "step", who |-> step.actor, what |-> step.type]
MessageEvent(message) == [kind |-> "message", who |-> message.role, what |-> ""]

\* a backend-supplied step: type s.type || 'plan', actor s.actor || the
\* backend, note as supplied
BackendStep(item) ==
  Step(IF item = "notype" THEN "plan" ELSE item,
       IF item = "route" THEN "planner" ELSE "backend", "supplied")

\* pushMessage that writes the message over the conversation's last one
PushMessageOverLast(convs, convId, message) ==
  [i \in 1..Len(convs) |->
     IF convs[i].id # convId THEN convs[i]
     ELSE [convs[i] EXCEPT !.messages =
             IF @ = <<>> THEN <<message>>
             ELSE Append(SubSeq(@, 1, Len(@) - 1), message)]]

\* pushMessage: the conversation with that id gains the message at the end
PushMessage(convs, convId, message) ==
  [i \in 1..Len(convs) |->
     IF convs[i].id # convId THEN convs[i]
     ELSE [convs[i] EXCEPT !.messages = Append(@, message)]]

\* setAgentState: the agent with that id gets the status
SetAgentState(ags, agentId, status) ==
  [a \in DOMAIN ags |-> IF a = agentId THEN status ELSE ags[a]]

\* the identifier uuid() returned to the sendMessage call of submission t,
\* which every handler of that call closes over
TurnIdOf(t) == turn[t].turnId

UserMessage(turnId, safeContent) ==
  [role |-> "user", turnId |-> turnId, agentId |-> "", content |-> safeContent]
\* a reply: context is <<rag>> or <<>>, llm is <<info>> or <<>>
ReplyMessage(turnId, agentId, content, context, llm) ==
  [role |-> "agent", turnId |-> turnId, agentId |-> agentId,
   content |-> content, context |-> context, llm |-> llm]
ReplyEvent == [kind |-> "message", who |-> "agent", what |-> ""]
GenerateEvent == [kind |-> "step", who |-> "writer", what |-> "generate"]

\* applyBackendProtocol: appends the returned steps in order; reading a field
\* of a null element throws, leaving the steps before it appended
RECURSIVE ApplyBackendProtocol(_, _, _)
ApplyBackendProtocol(p, turnId, items) ==
  IF items = <<>>
    THEN [map |-> p, out |-> <<>>, threw |-> FALSE, events |-> <<>>]
  ELSE IF Head(items) = "null"
    THEN [map |-> p, out |-> <<>>, threw |-> TRUE, events |-> <<>>]
  ELSE LET a == AppendStep(p, turnId, BackendStep(Head(items)))
           r == ApplyBackendProtocol(a.map, turnId, Tail(items))
       IN  [map |-> r.map, out |-> a.out \o r.out, threw |-> r.threw,
            events |-> <<StepEvent(BackendStep(Head(items)))>> \o r.events]

\* sendMessageMockPath, the part run at the call: planner thinking, the query
\* reformulated (once: the set binds the result for the plan step and the
\* closure), plan step; the returned observable is cold (pc)
SendMessageMockPath(p, ags, convs, turnId, pc, safeContent) ==
  CHOOSE m \in
    {LET a == AppendStep(p, turnId, LocalPlanStep(reformulated))
     IN  [map |-> a.map, out |-> a.out,
          agents |-> SetAgentState(ags, "planner", "thinking"),
          convs |-> convs, pc |-> pc, obs |-> <<>>, llm |-> <<>>,
          reformulated |-> reformulated,
          events |-> <<AgentEvent("planner", "thinking"),
                       StepEvent(LocalPlanStep(reformulated))>>] :
       reformulated \in {ReformulatedOf[safeContent]}} : TRUE

\* catchError that falls back without recording the error step
CatchErrorSilent(p, ags, convs, t) ==
  SendMessageMockPath(p, ags, convs, TurnIdOf(t), "delay1",
                      turn[t].safeContent)

\* catchError that records the error step and rethrows
CatchErrorRethrow(p, ags, convs, t) ==
  LET e == AppendStep(p, TurnIdOf(t), ErrorStep)
  IN  [map |-> e.map, out |-> e.out, agents |-> ags, convs |-> convs,
       pc |-> "done", obs |-> <<"error">>, llm |-> <<>>,
       events |-> <<StepEvent(ErrorStep)>>]

\* catchError of sendMessage: error step, then the local path, whose
\* observable catchError subscribes at once
CatchError(p, ags, convs, t) ==
  LET e == AppendStep(p, TurnIdOf(t), ErrorStep)
      m == SendMessageMockPath(e.map, ags, convs, TurnIdOf(t), "delay1",
                               turn[t].safeContent)
  IN  [m EXCEPT !.out = e.out \o m.out,
                !.events = <<StepEvent(ErrorStep)>> \o m.events]

\* the taps on a response with the reply pushed before the returned steps
\* are merged
RemoteResponseReplyFirst(p, ags, convs, t, convId, agentId, res) ==
  LET ap == ApplyBackendProtocol(p, TurnIdOf(t), res.protocol)
      reply == ReplyMessage(TurnIdOf(t), agentId, ContentOrDefault(res.content),
                            res.context, NormLlm(res.llm))
  IN  [map |-> ap.map, out |-> ap.out,
       agents |-> SetAgentState(ags, "planner", "idle"),
       convs |-> PushMessage(convs, convId, reply),
       pc |-> "done", obs |-> <<"next", "complete">>, llm |-> <<>>,
       events |-> <<ReplyEvent>> \o ap.events
                    \o <<AgentEvent("planner", "idle")>>]

\* remote chain that pushes the reply before it merges the returned steps:
\* when the merge throws, the fallback runs with the reply already pushed
RemoteResponseReplyBeforeMerge(p, ags, convs, t, convId, agentId, res) ==
  LET ap == ApplyBackendProtocol(p, TurnIdOf(t), res.protocol)
      reply == ReplyMessage(TurnIdOf(t), agentId, ContentOrDefault(res.content),
                            res.context, NormLlm(res.llm))
      pushed == PushMessage(convs, convId, reply)
  IN  IF ap.threw
        THEN LET c == CatchError(ap.map, ags, pushed, t)
             IN  [c EXCEPT !.out = ap.out \o c.out,
                           !.events = <<ReplyEvent>> \o ap.events \o c.events]
        ELSE [map |-> ap.map, out |-> ap.out,
              agents |-> SetAgentState(ags, "planner", "idle"),
              convs |-> pushed,
              pc |-> "done", obs |-> <<"next", "complete">>, llm |-> <<>>,
              events |-> <<ReplyEvent>> \o ap.events
                           \o <<AgentEvent("planner", "idle")>>]

\* the two taps and the map of the remote chain on a response, with
\* catchError when applyBackendProtocol throws
RemoteResponse(p, ags, convs, t, convId, agentId, res) ==
  LET ap == ApplyBackendProtocol(p, TurnIdOf(t), res.protocol)
      reply == ReplyMessage(TurnIdOf(t), agentId, ContentOrDefault(res.content),
                            res.context, NormLlm(res.llm))
  IN  IF ap.threw
        THEN LET c == CatchError(ap.map, ags, convs, t)
             IN  [c EXCEPT !.out = ap.out \o c.out,
                           !.events = ap.events \o c.events]
        ELSE [map |-> ap.map, out |-> ap.out,
              agents |-> SetAgentState(ags, "planner", "idle"),
              convs |-> PushMessage(convs, convId, reply),
              pc |-> "done", obs |-> <<"next", "complete">>, llm |-> <<>>,
              events |-> ap.events
                           \o <<ReplyEvent,
                                AgentEvent("planner", "idle")>>]

\* first tap of the local chain: route
RouteTap(p, ags, convs, t) ==
  LET a == AppendStep(p, TurnIdOf(t), RouteStep)
  IN  [map |-> a.map, out |-> a.out,
       agents |-> SetAgentState(ags, "planner", "retrieving"),
       convs |-> convs, pc |-> "delay2", obs |-> <<>>, llm |-> <<>>,
       events |-> <<AgentEvent("planner", "retrieving"),
                    StepEvent(RouteStep)>>]

\* second tap that returns early, before any step, when the query is empty
RetrieveTapNeedsQuery(p, ags, convs, t) ==
  LET query == RetrievalQuery(turn[t].reformulated, turn[t].safeContent)
      chunks == EvidenceOf[query]
      a == AppendStep(p, TurnIdOf(t), RetrieveStep(query, chunks))
      contextItems == ContextItems(turn[t].safeContent, chunks)
      b == AppendStep(a.map, TurnIdOf(t), PackStep(contextItems))
      ags1 == SetAgentState(ags, "researcher", "retrieving")
      ags2 == SetAgentState(ags1, "researcher", "responding")
  IN  IF query = <<>>
        THEN [map |-> p, out |-> <<>>, agents |-> ags1, convs |-> convs,
              pc |-> "done", obs |-> <<"next", "complete">>, llm |-> <<>>,
              events |-> <<AgentEvent("researcher", "retrieving")>>]
        ELSE [map |-> b.map, out |-> a.out \o b.out,
              agents |-> SetAgentState(ags2, "writer", "thinking"),
              convs |-> convs, pc |-> "gen", obs |-> <<"next", "complete">>, llm |-> <<>>,
              events |-> <<AgentEvent("researcher", "retrieving"),
                           StepEvent(RetrieveStep(query, chunks)),
                           AgentEvent("researcher", "responding"),
                           StepEvent(PackStep(contextItems)),
                           AgentEvent("writer", "thinking")>>]

\* second tap of the local chain: retrieve, pack, arm the generation timer;
\* then map emits the user message and the chain completes
RetrieveTap(p, ags, convs, t) ==
  LET query == RetrievalQuery(turn[t].reformulated, turn[t].safeContent)
      chunks == EvidenceOf[query]
      a == AppendStep(p, TurnIdOf(t), RetrieveStep(query, chunks))
      contextItems == ContextItems(turn[t].safeContent, chunks)
      b == AppendStep(a.map, TurnIdOf(t), PackStep(contextItems))
      ags1 == SetAgentState(ags, "researcher", "retrieving")
      ags2 == SetAgentState(ags1, "researcher", "responding")
  IN  [map |-> b.map, out |-> a.out \o b.out,
       agents |-> SetAgentState(ags2, "writer", "thinking"),
       convs |-> convs, pc |-> "gen", obs |-> <<"next", "complete">>, llm |-> <<>>,
       events |-> <<AgentEvent("researcher", "retrieving"),
                    StepEvent(RetrieveStep(query, chunks)),
                    AgentEvent("researcher", "responding"),
                    StepEvent(PackStep(contextItems)),
                    AgentEvent("writer", "thinking")>>]

\* the reply of the generation callback, built from what the second tap left
\* in the closure: rag, contextItems and the selected agent
\* what the closure of a local turn holds after the second tap and what the
\* timer callback computes from it, tabulated over the user's text and the
\* retrieval query: rag, contextItems, the token counts and the reply text
\* per agent
LocalGenerationOf ==
  [k \in {<<s, RetrievalQuery(ReformulatedOf[s], s)>> : s \in SafeTexts} |->
     LET rag == [query |-> k[2], chunks |-> EvidenceOf[k[2]]]
         contextItems == ContextItems(k[1], rag.chunks)
     IN  [rag |-> rag,
          contextItems |-> contextItems,
          tokens |-> LlmTokens(contextItems),
          text |-> [a \in AgentIds |-> GenerateReplyTailored(k[1], rag, a)]]]

\* the closure of turn t: its text and its retrieval query
LocalKey(t) ==
  <<turn[t].safeContent,
    RetrievalQuery(turn[t].reformulated, turn[t].safeContent)>>

\* contextItems of the closure of turn t, as the second tap built it
LocalContextItems(t) == LocalGenerationOf[LocalKey(t)].contextItems

\* the reply the timer callback of turn t builds when it measured that
\* latency
LocalReply(t, agentId, latency) ==
  ReplyMessage(TurnIdOf(t), agentId, LocalGenerationOf[LocalKey(t)].text[agentId],
               <<LocalGenerationOf[LocalKey(t)].rag>>,
               <<LlmInfo(LocalGenerationOf[LocalKey(t)].tokens, latency)>>)

\* generation callback that records the generate step but pushes no reply
GenerateCallbackNoReply(p, ags, convs, t, convId, agentId, latency) ==
  LET a == AppendStep(p, TurnIdOf(t), GenerateStep(LocalReply(t, agentId, latency),
                                       LocalContextItems(t)))
  IN  [map |-> a.map, out |-> a.out,
       agents |-> [x \in DOMAIN ags |-> "idle"],
       convs |-> convs, pc |-> "done", obs |-> <<>>, llm |-> <<>>,
       events |-> <<AgentEvent("planner", "idle"),
                    AgentEvent("researcher", "idle"),
                    AgentEvent("writer", "responding"),
                    GenerateEvent,
                    AgentEvent("writer", "idle")>>]

\* generation callback that pushes the reply but records no generate step
GenerateCallbackNoStep(p, ags, convs, t, convId, agentId, latency) ==
  [map |-> p, out |-> <<>>,
   agents |-> [x \in DOMAIN ags |-> "idle"],
   convs |-> PushMessage(convs, convId, LocalReply(t, agentId, latency)),
   pc |-> "done", obs |-> <<>>, llm |-> <<>>,
   events |-> <<AgentEvent("planner", "idle"),
                AgentEvent("researcher", "idle"),
                AgentEvent("writer", "responding"),
                ReplyEvent,
                AgentEvent("writer", "idle")>>]

\* generation callback without its last statement: the writer is left
\* responding
GenerateCallbackWriterBusy(p, ags, convs, t, convId, agentId, latency) ==
  LET ags1 == SetAgentState(SetAgentState(ags, "planner", "idle"),
                            "researcher", "idle")
      a == AppendStep(p, TurnIdOf(t), GenerateStep(LocalReply(t, agentId, latency),
                                       LocalContextItems(t)))
  IN  [map |-> a.map, out |-> a.out,
       agents |-> SetAgentState(ags1, "writer", "responding"),
       convs |-> PushMessage(convs, convId, LocalReply(t, agentId, latency)),
       pc |-> "done", obs |-> <<>>, llm |-> <<>>,
       events |-> <<AgentEvent("planner", "idle"),
                    AgentEvent("researcher", "idle"),
                    AgentEvent("writer", "responding"),
                    ReplyEvent,
                    GenerateEvent>>]

\* generation callback that records the generate step before it pushes the
\* reply
GenerateCallbackStepFirst(p, ags, convs, t, convId, agentId, latency) ==
  LET ags1 == SetAgentState(SetAgentState(ags, "planner", "idle"),
                            "researcher", "idle")
      a == AppendStep(p, TurnIdOf(t), GenerateStep(LocalReply(t, agentId, latency),
                                         LocalContextItems(t)))
  IN  [map |-> a.map, out |-> a.out,
       agents |-> SetAgentState(ags1, "writer", "idle"),
       convs |-> PushMessage(convs, convId, LocalReply(t, agentId, latency)),
       pc |-> "done", obs |-> <<>>, llm |-> <<>>,
       events |-> <<AgentEvent("planner", "idle"),
                    AgentEvent("researcher", "idle"),
                    AgentEvent("writer", "responding"),
                    GenerateEvent,
                    ReplyEvent,
                    AgentEvent("writer", "idle")>>]

\* callback of the generation timer: reply message, generate step, idle
GenerateCallback(p, ags, convs, t, convId, agentId, latency) ==
  LET ags1 == SetAgentState(SetAgentState(ags, "planner", "idle"),
                            "researcher", "idle")
      ags2 == SetAgentState(ags1, "writer", "responding")
      a == AppendStep(p, TurnIdOf(t), GenerateStep(LocalReply(t, agentId, latency),
                                       LocalContextItems(t)))
  IN  [map |-> a.map, out |-> a.out,
       agents |-> SetAgentState(ags2, "writer", "idle"),
       convs |-> PushMessage(convs, convId, LocalReply(t, agentId, latency)),
       pc |-> "done", obs |-> <<>>, llm |-> <<>>,
       events |-> <<AgentEvent("planner", "idle"),
                    AgentEvent("researcher", "idle"),
                    AgentEvent("writer", "responding"),
                    ReplyEvent,
                    GenerateEvent,
                    AgentEvent("writer", "idle")>>]

\* watchActiveConversation's map: the conversation of the list whose id is
\* the active one, <<conversation>> or <<>> (undefined) when there is none
ActiveConversationIn(convs, activeId) ==
  SelectSeq(convs, LAMBDA c : c.id = activeId)

\* conversations$.next(convs) as a subscriber of watchActiveConversation
\* sees it: the list is mapped with the active id of that moment
Emission(w, convs, activeId) ==
  IF w.subscribed
    THEN [w EXCEPT !.latest = ActiveConversationIn(convs, activeId)]
    ELSE w

\* the subscriptions made to the result of turn t: 0 is the first, whose
\* chain is kept in the turn itself, the later ones are kept in again
Chains(t) == 0..Len(turn[t].again)

\* a chain as a later subscription starts it
NewChain(pc, remote) ==
  [pc |-> pc, remote |-> remote, obs |-> <<>>, unsub |-> FALSE, llm |-> <<>>]

\* the chain of subscription s of turn t: its position, the state of its
\* remote call, what it emitted, whether it was unsubscribed
ChainOf(t, s) ==
  IF s = 0
    THEN [pc |-> turn[t].pc, remote |-> turn[t].remote, obs |-> turn[t].obs,
          unsub |-> turn[t].unsub, llm |-> turn[t].llm]
    ELSE turn[t].again[s]

\* the turn with chain s started at that position
Started(tr, s, pc, remote) ==
  IF s = 0 THEN [tr EXCEPT !.pc = pc, !.remote = remote]
  ELSE [tr EXCEPT !.again = Append(@, NewChain(pc, remote))]

\* the turn after a handler of its chain s ran with result r
Committed(tr, s, r, remote) ==
  LET shared == [tr EXCEPT
                   !.events = @ \o r.events,
                   !.reformulated = IF "reformulated" \in DOMAIN r
                                      THEN r.reformulated ELSE @]
  IN  IF s = 0
        THEN [shared EXCEPT
                !.pc = r.pc, !.obs = @ \o r.obs, !.remote = remote,
                !.llm = IF r.llm # <<>> THEN r.llm ELSE @]
        ELSE [shared EXCEPT
                !.again[s].pc = r.pc, !.again[s].obs = @ \o r.obs,
                !.again[s].remote = remote,
                !.again[s].llm = IF r.llm # <<>> THEN r.llm ELSE @]

\* the effect of a handler with result r on the stores, the agents and the
\* conversations
Effects(r) ==
  /\ protocols' = r.map
  /\ watchers' = Deliver(watchers, r.out)
  /\ agents' = r.agents
  /\ conversations' = r.convs
  /\ watched' = IF r.convs # conversations
                   THEN Emission(watched, r.convs, activeConversationId)
                   ELSE watched

\* the effect on the state of a handler of chain s of turn t with that
\* result
Commit(t, s, result, remote) ==
  \E r \in {result} :
    /\ Effects(r)
    /\ turn' = [turn EXCEPT ![t] = Committed(@, s, r, remote)]

\* an identifier no earlier uuid() call returned
FreshId == nextTurn

\* sendMessage up to its return, uuid() having returned turnId to it; t is
\* the call
SendMessage(content, turnId) ==
  /\ nextTurn <= MaxTurns
  /\ LET t == nextTurn
         convId == activeConversationId
         selectedAgentId == IF activeAgentId = "" THEN "writer"
                            ELSE activeAgentId
         safeContent == SanitizeOf[content]
         a == AddProtocol(protocols, turnId)
         convs == PushMessage(conversations, convId,
                              UserMessage(turnId, safeContent))
         r == IF ~IsConfigured
                THEN LET m == SendMessageMockPath(a.map, agents, convs, turnId,
                                                  "cold", safeContent)
                     IN  [m EXCEPT !.out = a.out \o m.out]
                ELSE LET b == AppendStep(a.map, turnId, RemotePlanStep)
                     IN  [map |-> b.map, out |-> a.out \o b.out,
                          agents |-> SetAgentState(agents, "planner", "thinking"),
                          convs |-> convs, pc |-> "coldRemote", obs |-> <<>>, llm |-> <<>>,
                          events |-> <<AgentEvent("planner", "thinking"),
                                       StepEvent(RemotePlanStep)>>]
     IN  /\ protocols' = r.map
         /\ watchers' = Deliver(watchers, r.out)
         /\ agents' = r.agents
         /\ conversations' = r.convs
         /\ watched' = Emission(watched, r.convs, activeConversationId)
         /\ turn' = [turn EXCEPT ![t] =
                       [pc |-> r.pc, start |-> r.pc, again |-> <<>>,
                        turnId |-> turnId, convId |-> convId,
                        agentId |-> selectedAgentId, remote |-> "none",
                        obs |-> <<>>, unsub |-> FALSE,
                        events |-> <<MessageEvent(UserMessage(turnId,
                                                              safeContent))>>
                                     \o r.events,
                        llm |-> <<>>,
                        content |-> content,
                        safeContent |-> safeContent,
                        reformulated |-> IF "reformulated" \in DOMAIN r
                                           THEN r.reformulated ELSE <<>>]]
  /\ nextTurn' = nextTurn + 1
  /\ UNCHANGED <<configured, rosters, lastCall, held, ranked, activeConversationId,
                 activeAgentId,
                 agentSwitches, httpRequests, directCalls>>

\* the observable sendMessage returned for turn t has been subscribed
Subscribed(t) == turn[t].pc \notin {"unused", "cold", "coldRemote"}

\* subscribe to the observable sendMessage returned, which is cold: every
\* subscription runs the chain from its start. The local chain arms its
\* first delay; the remote chain calls chatCompletions
Subscribe(t) ==
  /\ turn[t].pc # "unused"
  /\ Subscribed(t) => Len(turn[t].again) < MaxResubscriptions
  /\ \E s \in {IF Subscribed(t) THEN Len(turn[t].again) + 1 ELSE 0} :
       IF turn[t].start = "cold"
         THEN /\ turn' = [turn EXCEPT ![t] = Started(@, s, "delay1", @.remote)]
              /\ UNCHANGED <<protocols, watchers, agents, conversations,
                             watched, httpRequests>>
         ELSE IF ChatCompletions = "post"
           THEN /\ turn' = [turn EXCEPT
                              ![t] = Started(@, s, "http", "pending")]
                /\ httpRequests' = httpRequests + 1
                /\ UNCHANGED <<protocols, watchers, agents, conversations,
                               watched>>
           ELSE /\ \E r \in {CatchError(protocols, agents, conversations, t)} :
                     /\ Effects(r)
                     /\ turn' = [turn EXCEPT ![t] =
                                   Committed(Started(@, s, "coldRemote", "none"),
                                             s, r, "callFailed")]
                /\ UNCHANGED httpRequests
  /\ UNCHANGED <<configured, rosters, lastCall, held, ranked, activeConversationId,
                 activeAgentId,
                 agentSwitches, nextTurn, directCalls>>

\* the first subscription to a result: the pages subscribe once, in the
\* statement that calls sendMessage
SubscribeOnce(t) == ~Subscribed(t) /\ Subscribe(t)

Frame == UNCHANGED <<configured, rosters, lastCall, held, ranked,
                     activeConversationId,
                     activeAgentId, agentSwitches, nextTurn, httpRequests,
                     directCalls>>

\* a remote call of the turn answers
HttpSuccess(t, res) ==
  \E s \in Chains(t) :
    /\ ChainOf(t, s).pc = "http"
    /\ \E r \in {RemoteResponse(protocols, agents, conversations, t,
                                 turn[t].convId, turn[t].agentId, res)} :
         Commit(t, s, [r EXCEPT !.llm = res.llm],
                IF r.pc = "done" THEN "ok" ELSE "procFailed")
    /\ Frame

\* a remote call of the turn fails: timeout, network error, non-success
\* response
HttpFail(t) ==
  \E s \in Chains(t) :
    /\ ChainOf(t, s).pc = "http"
    /\ Commit(t, s, CatchError(protocols, agents, conversations, t),
              "callFailed")
    /\ Frame

\* a delay(400) of a local chain of the turn elapses
Timer1(t) ==
  \E s \in Chains(t) :
    /\ ChainOf(t, s).pc = "delay1"
    /\ Commit(t, s, RouteTap(protocols, agents, conversations, t),
              ChainOf(t, s).remote)
    /\ Frame

\* a second delay(400) elapses
Timer2(t) ==
  \E s \in Chains(t) :
    /\ ChainOf(t, s).pc = "delay2"
    /\ Commit(t, s, RetrieveTap(protocols, agents, conversations, t),
              ChainOf(t, s).remote)
    /\ Frame

\* generation callback that reads the active conversation and the active
\* agent when it runs, not the ones of the submission
GenTimeoutActive(t, latency) ==
  \E s \in Chains(t) :
    /\ ChainOf(t, s).pc = "gen"
    /\ Commit(t, s, GenerateCallback(protocols, agents, conversations, t,
                                     activeConversationId,
                                     IF activeAgentId = "" THEN "writer"
                                     ELSE activeAgentId, latency),
              ChainOf(t, s).remote)
    /\ Frame

\* a setTimeout(900) of the generation fires; the callback measures that
\* latency
GenTimeout(t, latency) ==
  \E s \in Chains(t) :
    /\ ChainOf(t, s).pc = "gen"
    /\ Commit(t, s, GenerateCallback(protocols, agents, conversations, t,
                                     turn[t].convId, turn[t].agentId,
                                     latency),
              ChainOf(t, s).remote)
    /\ Frame

\* the position of a chain after its subscription is torn down: a pending
\* delay timer or HTTP request goes with it
TornDown(pc) ==
  IF pc = "delay1" THEN "cancelledDelay1"
  ELSE IF pc = "delay2" THEN "cancelledDelay2"
  ELSE IF pc = "http" THEN "cancelledHttp" ELSE pc

\* the caller unsubscribes from a subscription to the observable sendMessage
\* returned: a pending delay timer or HTTP request of the chain is torn down
\* with the subscription, so the taps behind it never run; the generation
\* timer, set with setTimeout inside the second tap, is not part of the
\* subscription
Unsubscribe(t) ==
  \E s \in Chains(t) :
    /\ Subscribed(t)
    /\ ~ChainOf(t, s).unsub
    /\ turn' = [turn EXCEPT ![t] =
                  IF s = 0
                    THEN [@ EXCEPT
                            !.unsub = TRUE,
                            !.pc = TornDown(@),
                            !.remote = IF turn[t].pc = "http" THEN "aborted"
                                       ELSE @]
                    ELSE [@ EXCEPT
                            !.again[s].unsub = TRUE,
                            !.again[s].pc = TornDown(@),
                            !.again[s].remote =
                              IF turn[t].again[s].pc = "http" THEN "aborted"
                              ELSE @]]
    /\ UNCHANGED <<protocols, watchers, agents, conversations, watched>>
    /\ Frame

SetActiveAgent(agentId) ==
  /\ agentSwitches < MaxAgentSwitches
  /\ agentSwitches' = agentSwitches + 1
  /\ activeAgentId' = agentId
  /\ conversations' =
       [i \in 1..Len(conversations) |->
          IF conversations[i].id = activeConversationId
            THEN [conversations[i] EXCEPT !.agentId = agentId]
            ELSE conversations[i]]
  /\ watched' = Emission(watched, conversations', activeConversationId)
  /\ UNCHANGED <<configured, rosters, protocols, watchers, lastCall, held, ranked,
                 activeConversationId, agents, turn, nextTurn, httpRequests,
                 directCalls>>

\* newConversation('New Chat'), as the chat page calls it; createdAt is the
\* number of conversations created before this one
NewConversation ==
  /\ Len(conversations) < MaxConvs
  /\ LET id == Len(conversations) + 1
     IN  /\ conversations' =
              << [id |-> id, title |-> "New Chat",
                  createdAt |-> Len(conversations),
                  agentId |-> activeAgentId, messages |-> <<>>] >>
              \o conversations
         /\ watched' = Emission(watched, conversations', activeConversationId)
         /\ activeConversationId' = id
  /\ UNCHANGED <<configured, rosters, protocols, watchers, lastCall, held, ranked, activeAgentId,
                 agentSwitches, agents, turn, nextTurn, httpRequests,
                 directCalls>>

\* a direct call (and subscription) of LlmClientService.chatCompletions
ChatCompletionsCall ==
  /\ Len(directCalls) < MaxDirectCalls
  /\ directCalls' = Append(directCalls, ChatCompletions)
  /\ httpRequests' = IF ChatCompletions = "post" THEN httpRequests + 1
                     ELSE httpRequests
  /\ UNCHANGED <<configured, rosters, watched, protocols, watchers, lastCall, held, ranked, conversations,
                 activeConversationId, activeAgentId, agentSwitches, agents,
                 turn, nextTurn>>

\* getAgents(): the caller gets the array this.agents refers to at the call;
\* setAgentState assigns a new array of new objects and leaves that one as
\* it was
GetAgents ==
  /\ Len(rosters) < MaxRosters
  /\ rosters' = Append(rosters, [via |-> "getAgents", shown |-> agents])
  /\ UNCHANGED <<configured, watched, protocols, watchers, lastCall, held,
                 ranked, chatVars>>

\* watchActiveAgent().subscribe: of(this.agents.find(...)) holds the entry
\* of the active agent found at the call, or undefined (shown is empty)
WatchActiveAgent ==
  /\ Len(rosters) < MaxRosters
  /\ rosters' = Append(rosters,
                       [via |-> "watchActiveAgent",
                        shown |-> [a \in {activeAgentId} \cap AgentIds |->
                                     agents[a]]])
  /\ UNCHANGED <<configured, watched, protocols, watchers, lastCall, held,
                 ranked, chatVars>>

\* watchActiveConversation().subscribe: conversations$ replays its current
\* list, mapped with the active id
WatchActiveConversation ==
  /\ ~watched.subscribed
  /\ watched' = [subscribed |-> TRUE,
                 latest |-> ActiveConversationIn(conversations,
                                                 activeConversationId)]
  /\ UNCHANGED <<configured, rosters, protocols, watchers, lastCall, held,
                 ranked, chatVars>>

\* the dedup-and-rank block and the packing of the second tap, applied to a
\* candidate list, with the token counts the timer callback computes from
\* the packed items
Rank(safeContent, candidates) ==
  /\ ranked = <<>>
  /\ \E chunks \in {DedupRank(candidates)} :
       \E contextItems \in {ContextItems(safeContent, chunks)} :
         ranked' = <<[safeContent |-> safeContent,
                      candidates |-> candidates, chunks |-> chunks,
                      contextItems |-> contextItems,
                      tokens |-> LlmTokens(contextItems)]>>
  /\ UNCHANGED <<configured, rosters, watched, protocols, watchers, lastCall, held, chatVars>>

BackendResponses == SeqsUpTo(BackendItems, MaxBackendSteps)

\* the response bodies of the turns' remote calls: any list of steps, no
\* content, retrieval context or model-call info
Responses ==
  [protocol : BackendResponses, content : {<<>>}, context : {<<>>},
   llm : {NoLlm}]

HttpOutcome(t) == HttpFail(t) \/ \E res \in Responses : HttpSuccess(t, res)

Next ==
  \/ \E c \in ShortTexts : SendMessage(c, FreshId)
  \/ \E t \in TurnIds : SubscribeOnce(t)
  \/ \E t \in TurnIds, res \in Responses : HttpSuccess(t, res)
  \/ \E t \in TurnIds : HttpFail(t)
  \/ \E t \in TurnIds : Timer1(t)
  \/ \E t \in TurnIds : Timer2(t)
  \/ \E t \in TurnIds : GenTimeout(t, Elapsed)
  \/ \E a \in AgentInputs : SetActiveAgent(a)
  \/ NewConversation
  \/ ChatCompletionsCall

Spec == Init /\ [][Next]_vars

\* the steps of sendMessage and of the turns it starts, with the change of the
\* active conversation; agent selection and direct client calls, which touch
\* no turn in flight, are left to Spec
PipelineNext ==
  \/ \E c \in ShortTexts : SendMessage(c, FreshId)
  \/ \E t \in TurnIds : SubscribeOnce(t)
  \/ \E t \in TurnIds, res \in Responses : HttpSuccess(t, res)
  \/ \E t \in TurnIds : HttpFail(t)
  \/ \E t \in TurnIds : Timer1(t)
  \/ \E t \in TurnIds : Timer2(t)
  \/ \E t \in TurnIds : GenTimeout(t, Elapsed)
  \/ NewConversation

\* an armed timer fires, and a pending remote call ends one way or the other
\* (the client's timeout bounds the wait)
Fairness ==
  \A t \in TurnIds :
    /\ WF_vars(Timer1(t))
    /\ WF_vars(Timer2(t))
    /\ WF_vars(GenTimeout(t, Elapsed))
    /\ WF_vars(HttpOutcome(t))

FairSpec == Init /\ [][PipelineNext]_vars /\ Fairness

\* uuid() is crypto.randomUUID() or, without it, 31 Math.random() digits:
\* nothing keeps a value from being returned twice
Uuid == TurnIds

\* the pipeline with submissions drawing any identifier uuid() can return
UuidNext ==
  \/ \E c \in ShortTexts, turnId \in Uuid : SendMessage(c, turnId)
  \/ \E t \in TurnIds : SubscribeOnce(t)
  \/ \E t \in TurnIds, res \in Responses : HttpSuccess(t, res)
  \/ \E t \in TurnIds : HttpFail(t)
  \/ \E t \in TurnIds : Timer1(t)
  \/ \E t \in TurnIds : Timer2(t)
  \/ \E t \in TurnIds : GenTimeout(t, Elapsed)

UuidSpec == Init /\ [][UuidNext]_vars

\* the turns' steps with a caller that may unsubscribe from a result
CancelNext ==
  \/ PipelineNext
  \/ \E t \in TurnIds : Unsubscribe(t)

CancelSpec == Init /\ [][CancelNext]_vars /\ Fairness

\* one submission with a caller that holds the observable: it may
\* unsubscribe, and subscribe again to a result it has subscribed to
ResubscribeNext ==
  \/ nextTurn = 1 /\ \E c \in ShortTexts : SendMessage(c, FreshId)
  \/ \E t \in TurnIds : Subscribe(t)
  \/ \E t \in TurnIds, res \in Responses : HttpSuccess(t, res)
  \/ \E t \in TurnIds : HttpFail(t)
  \/ \E t \in TurnIds : Timer1(t)
  \/ \E t \in TurnIds : Timer2(t)
  \/ \E t \in TurnIds : GenTimeout(t, Elapsed)
  \/ \E t \in TurnIds : Unsubscribe(t)

ResubscribeSpec == Init /\ [][ResubscribeNext]_vars

\* one submission whose result may be subscribed again, every chain started
\* running to its end
RepeatNext ==
  \/ nextTurn = 1 /\ \E c \in ShortTexts : SendMessage(c, FreshId)
  \/ \E t \in TurnIds : Subscribe(t)
  \/ \E t \in TurnIds, res \in Responses : HttpSuccess(t, res)
  \/ \E t \in TurnIds : HttpFail(t)
  \/ \E t \in TurnIds : Timer1(t)
  \/ \E t \in TurnIds : Timer2(t)
  \/ \E t \in TurnIds : GenTimeout(t, Elapsed)

RepeatSpec == Init /\ [][RepeatNext]_vars /\ Fairness

\* one submission, its steps and the agent selection, with observers of the
\* roster
RosterNext ==
  \/ nextTurn = 1 /\ \E c \in ShortTexts : SendMessage(c, FreshId)
  \/ \E t \in TurnIds : SubscribeOnce(t)
  \/ \E t \in TurnIds, res \in Responses : HttpSuccess(t, res)
  \/ \E t \in TurnIds : HttpFail(t)
  \/ \E t \in TurnIds : Timer1(t)
  \/ \E t \in TurnIds : Timer2(t)
  \/ \E t \in TurnIds : GenTimeout(t, Elapsed)
  \/ NewConversation
  \/ \E a \in AgentInputs : SetActiveAgent(a)
  \/ GetAgents
  \/ WatchActiveAgent

RosterSpec == Init /\ [][RosterNext]_vars

\* the turns' steps and the agent selection, with a subscriber of
\* watchActiveConversation
WatchNext ==
  \/ PipelineNext
  \/ \E a \in AgentInputs : SetActiveAgent(a)
  \/ WatchActiveConversation

WatchSpec == Init /\ [][WatchNext]_vars

\* the values a response carries in a numeric field: absent, null, numbers,
\* the empty, a blank, a numeric and a non-numeric string, the booleans
BackendValues ==
  {Undefined, Null, Num(0), Num(7), Str(<<>>), Str(<<" ">>),
   Str(<<"4", "2">>), Str(<<"a", "b", "c">>), Bool(TRUE), Bool(FALSE)}

\* model-call infos of a response: one parameter or none, token counts or
\* none, a latency
BackendLlms ==
  {NoLlm} \cup
  {<<[model |-> "remote-model", params |-> pr, tokens |-> tk,
      latencyMs |-> v]>> :
     pr \in {<<>>} \cup {[k \in {"temperature"} |-> x] : x \in BackendValues},
     tk \in {NoTokens} \cup
            {[prompt |-> x, completion |-> Num(7), total |-> Undefined] :
               x \in BackendValues},
     v \in BackendValues}

\* response bodies without steps, with or without content, with any of the
\* model-call infos
InfoResponses ==
  [protocol : {<<>>}, content : {<<>>, <<"o", "k">>}, context : {<<>>},
   llm : BackendLlms]

\* one submission answered by the backend with any of those bodies, or not
ResponseNext ==
  \/ nextTurn = 1 /\ \E c \in ShortTexts : SendMessage(c, FreshId)
  \/ \E t \in TurnIds : SubscribeOnce(t)
  \/ \E t \in TurnIds, res \in InfoResponses : HttpSuccess(t, res)
  \/ \E t \in TurnIds : HttpFail(t)
  \/ \E t \in TurnIds : Timer1(t)
  \/ \E t \in TurnIds : Timer2(t)
  \/ \E t \in TurnIds : GenTimeout(t, Elapsed)

ResponseSpec == Init /\ [][ResponseNext]_vars

\* one submission of any of the texts, and the steps of its turn
ContentNext ==
  \/ nextTurn = 1 /\ \E c \in Texts : SendMessage(c, FreshId)
  \/ \E t \in TurnIds : SubscribeOnce(t)
  \/ \E t \in TurnIds, res \in Responses : HttpSuccess(t, res)
  \/ \E t \in TurnIds : HttpFail(t)
  \/ \E t \in TurnIds : Timer1(t)
  \/ \E t \in TurnIds : Timer2(t)
  \/ \E t \in TurnIds : GenTimeout(t, Elapsed)

ContentSpec == Init /\ [][ContentNext]_vars /\ Fairness

\* the second tap's dedup-and-rank block over candidate lists
CandidateTitles == {<<>>, <<"A">>, <<"a">>}
CandidateSources == {<<"a">>, <<"s">>}
CandidateScores == {<<>>, <<50>>, <<90>>}
CandidateSnippets == {[base |-> "x", echo |-> <<>>, ellipsis |-> FALSE]}
CandidateLists ==
  SeqsUpTo([title : CandidateTitles, source : CandidateSources,
            score : CandidateScores, snippet : CandidateSnippets],
           MaxCandidates)

\* lists of one candidate more than the cut keeps, all with different titles
WideCandidateLists ==
  {[i \in 1..(TopK + 1) |->
      [title |-> <<LowerLetters[i]>>, source |-> <<"s">>, score |-> sc[i],
       snippet |-> [base |-> "x", echo |-> <<>>, ellipsis |-> FALSE]]] :
     sc \in [1..(TopK + 1) -> CandidateScores]}

\* a snippet text long enough for its estimate to reach the ceiling
RECURSIVE Repeated(_, _)
Repeated(s, n) == IF n = 0 THEN "" ELSE s \o Repeated(s, n - 1)
LongSnippet ==
  [base |-> Repeated("0123456789", LongSnippetTens), echo |-> <<>>,
   ellipsis |-> FALSE]

\* lists of three candidates with different titles, each with a short or a
\* long snippet
SnippetCandidateLists ==
  {[i \in 1..PackedChunks |->
      [title |-> <<LowerLetters[i]>>, source |-> <<"s">>, score |-> <<90>>,
       snippet |-> sn[i]]] :
     sn \in [1..PackedChunks -> CandidateSnippets \cup {LongSnippet}]}

\* the sanitized texts ranked with: a short one and one as long as the cap
RankTexts == ShortTexts \cup {[i \in 1..ContentCap |-> "a"]}

RankNext ==
  \E c \in RankTexts,
     candidates \in CandidateLists \cup WideCandidateLists
                      \cup SnippetCandidateLists :
    Rank(c, candidates)

RankSpec == Init /\ [][RankNext]_vars

\* the scores of the list never rise, as in the list mockRag returns
Descending(candidates) ==
  \A i \in 1..(Len(candidates) - 1) :
    ScoreOrZero(candidates[i]) >= ScoreOrZero(candidates[i + 1])

\* the dedup-and-rank block over candidate lists ordered as mockRag orders
\* its own
DescendingNext ==
  \E c \in RankTexts,
     candidates \in {cs \in CandidateLists \cup WideCandidateLists :
                       Descending(cs)} :
    Rank(c, candidates)

DescendingSpec == Init /\ [][DescendingNext]_vars

\* candidate lists of 0 to TopK + 1 chunks with different titles
SizedCandidateLists ==
  {[i \in 1..n |->
      [title |-> <<LowerLetters[i]>>, source |-> <<"s">>, score |-> <<90>>,
       snippet |-> [base |-> "x", echo |-> <<>>, ellipsis |-> FALSE]]] :
     n \in 0..(TopK + 1)}

\* what the second tap and the timer callback of a local turn record for
\* that text and agent when retrieval returns that candidate list: the
\* retrieve step, the pack step, the reply and the generate step
Records(safeContent, candidates, agentId) ==
  /\ ranked = <<>>
  /\ \E query \in {RetrievalQuery(ReformulatedOf[safeContent], safeContent)} :
     \E chunks \in {DedupRank(candidates)} :
     \E contextItems \in {ContextItems(safeContent, chunks)} :
     \E reply \in {ReplyMessage(FreshId, agentId,
                                GenerateReplyTailored(
                                  safeContent,
                                  [query |-> query, chunks |-> chunks],
                                  agentId),
                                <<[query |-> query, chunks |-> chunks]>>,
                                <<LlmInfo(LlmTokens(contextItems), Elapsed)>>)} :
       ranked' = <<[safeContent |-> safeContent,
                    candidates |-> candidates, chunks |-> chunks,
                    contextItems |-> contextItems,
                    tokens |-> LlmTokens(contextItems),
                    retrieve |-> RetrieveStep(query, chunks),
                    pack |-> PackStep(contextItems),
                    reply |-> reply,
                    generate |-> GenerateStep(reply, contextItems)]>>
  /\ UNCHANGED <<configured, rosters, watched, protocols, watchers, lastCall,
                 held, chatVars>>

\* one submission of any of the texts and the steps of its turn, and the
\* records of a local turn for evidence lists of every length
RecordsNext ==
  \/ nextTurn = 1 /\ \E c \in Texts : SendMessage(c, FreshId)
  \/ \E t \in TurnIds : SubscribeOnce(t)
  \/ \E t \in TurnIds, res \in Responses : HttpSuccess(t, res)
  \/ \E t \in TurnIds : HttpFail(t)
  \/ \E t \in TurnIds : Timer1(t)
  \/ \E t \in TurnIds : Timer2(t)
  \/ \E t \in TurnIds : GenTimeout(t, Elapsed)
  \/ \E c \in ShortTexts, candidates \in SizedCandidateLists,
        agentId \in AgentIds :
       Records(SanitizeOf[c], candidates, agentId)

RecordsSpec == Init /\ [][RecordsNext]_vars

\* ------------------------------------------------- store specification
StoreNext ==
  \/ \E t \in TurnIds : AddProtocolCall(t)
  \/ \E t \in TurnIds, s \in StoreStepInputs : AppendStepCall(t, s)
  \/ \E w \in Watchers, t \in TurnIds : WatchCall(w, t)
  \/ \E t \in TurnIds : GetCall(t)

StoreSpec == Init /\ [][StoreNext]_vars

\* the store called with any key, the inherited ones included
KeyNext ==
  \/ \E k \in StoreKeys : AddProtocolCall(k)
  \/ \E k \in StoreKeys, s \in StoreStepInputs : AppendStepCall(k, s)
  \/ \E w \in Watchers, k \in StoreKeys : WatchCall(w, k)
  \/ \E k \in StoreKeys : GetCall(k)

KeySpec == Init /\ [][KeyNext]_vars

\* ------------------------------------------------------------- properties

Kinds(t) == [i \in 1..Len(protocols[t].steps) |-> protocols[t].steps[i].type]

LocalOrder == <<"plan", "route", "retrieve", "pack", "generate">>

IsPrefix(s, r) == Len(s) <= Len(r) /\ SubSeq(r, 1, Len(s)) = s

\* the conversation the turn was submitted on holds an agent message of it
Replied(t) ==
  \E i \in 1..Len(conversations) :
    /\ conversations[i].id = turn[t].convId
    /\ \E j \in 1..Len(conversations[i].messages) :
         /\ conversations[i].messages[j].role = "agent"
         /\ conversations[i].messages[j].turnId = t

RemoteFailed(t) == turn[t].remote \in {"callFailed", "procFailed"}

ErrorPositions(t) == {i \in 1..Len(Kinds(t)) : Kinds(t)[i] = "error"}

\* C1: every subscribed turn eventually has an agent reply carrying its turn
\* identifier in the conversation it was submitted on, whether the backend is
\* unconfigured, answers, or fails (timers and the call's outcome being fair).
C1_EveryTurnGetsReply ==
  \A t \in TurnIds : Subscribed(t) ~> Replied(t)

C1_Witness ==
  \E t, u \in TurnIds :
    /\ turn[t].remote = "callFailed" /\ Replied(t)
    /\ turn[u].remote = "ok" /\ Replied(u)

\* the timeline holds exactly one error step, and the steps after it are the
\* full local sequence
OneErrorThenLocalPath(t) ==
  /\ Cardinality(ErrorPositions(t)) = 1
  /\ \A i \in ErrorPositions(t) :
       SubSeq(Kinds(t), i + 1, Len(Kinds(t))) = LocalOrder

\* C2, as claimed: when the remote call of a turn has failed and everything
\* started for the turn has run to its end, the turn's timeline holds exactly
\* one error step followed by plan, route, retrieve, pack, generate, with an
\* agent reply appended and the result not errored.
C2_FailedCallFallsBack ==
  \A t \in TurnIds :
    (/\ turn[t].remote = "callFailed"
     /\ \A s \in Chains(t) : ChainOf(t, s).pc = "done") =>
      /\ OneErrorThenLocalPath(t)
      /\ Replied(t)
      /\ "error" \notin Range(turn[t].obs)

\* C2, for a result subscribed once: when the remote call of a turn fails,
\* the turn's timeline ends up, and stays for as long as the result is not
\* subscribed again, with exactly one error step followed by plan, route,
\* retrieve, pack, generate, with an agent reply appended and the result not
\* errored.
C2_FailedCallFallsBackOnce ==
  \A t \in TurnIds :
    (turn[t].remote = "callFailed") ~>
       [](turn[t].again = <<>> =>
            /\ OneErrorThenLocalPath(t)
            /\ Replied(t)
            /\ turn[t].pc = "done"
            /\ "error" \notin Range(turn[t].obs))

C2_Witness ==
  \E t \in TurnIds :
    /\ turn[t].remote = "callFailed"
    /\ turn[t].again = <<>>
    /\ turn[t].pc = "done"
    /\ OneErrorThenLocalPath(t)
    /\ Replied(t)

ErrorImmediatelyBeforeRoute(t) ==
  \E i \in 1..(Len(Kinds(t)) - 1) :
    Kinds(t)[i] = "error" /\ Kinds(t)[i + 1] = "route"

\* C3: in the timeline of a finished turn an error step sits immediately
\* before the route step if and only if the remote backend was attempted for
\* the turn and failed.
C3_ErrorImmediatelyBeforeRoute ==
  \A t \in TurnIds :
    turn[t].pc = "done" => (ErrorImmediatelyBeforeRoute(t) <=> RemoteFailed(t))

Position(kind) == CHOOSE i \in 1..Len(LocalOrder) : LocalOrder[i] = kind

\* s is a subsequence of LocalOrder: its kinds are local kinds in strictly
\* increasing order, hence each at most once
IsLocalSubsequence(s) ==
  /\ \A i \in 1..Len(s) : s[i] \in Range(LocalOrder)
  /\ \A i, j \in 1..Len(s) : i < j => Position(s[i]) < Position(s[j])

KindsWithoutError(t) == SelectSeq(Kinds(t), LAMBDA k : k # "error")

RunsLocalPath(t) ==
  turn[t].pc \in {"cold", "delay1", "delay2", "gen"}
    \/ (turn[t].pc = "done" /\ turn[t].remote # "ok")

\* C4: for every turn that runs the local path, directly or through remote
\* fallback, the kinds recorded in its timeline, error steps left aside, form
\* at every moment a subsequence of plan, route, retrieve, pack, generate.
C4_LocalKindsSubsequence ==
  \A t \in TurnIds : RunsLocalPath(t) => IsLocalSubsequence(KindsWithoutError(t))

\* the result of the turn's sendMessage has not errored; it is silent while
\* the fallback's delays run, and once they have run (route, retrieve and pack
\* recorded) it has emitted the user message once and completed
FallbackResultSound(t) ==
  /\ "error" \notin Range(turn[t].obs)
  /\ turn[t].pc \in {"delay1", "delay2", "gen", "done"}
  /\ turn[t].pc \in {"delay1", "delay2"} => turn[t].obs = <<>>
  /\ turn[t].pc \in {"gen", "done"} =>
       /\ turn[t].obs = <<"next", "complete">>
       /\ {"route", "retrieve", "pack"} \subseteq Range(Kinds(t))

\* C5: a failure of the remote call never reaches the caller: the result of
\* sendMessage never errors, and it eventually emits the user message once
\* and completes, after the fallback recorded route, retrieve and pack.
C5_RemoteFailureNotSurfaced ==
  \A t \in TurnIds :
    /\ [](RemoteFailed(t) => FallbackResultSound(t))
    /\ RemoteFailed(t) ~> (turn[t].obs = <<"next", "complete">>)

C5_Witness ==
  \E t \in TurnIds :
    /\ turn[t].remote = "callFailed"
    /\ turn[t].obs = <<"next", "complete">>

\* C6: with no base URL configured no HTTP request is ever issued, no error
\* step is ever recorded, every turn takes the local path without a remote
\* attempt, and a direct chatCompletions call fails with "not configured".
C6_UnconfiguredNeverCallsRemote ==
  ~configured =>
    /\ httpRequests = 0
    /\ \A t \in TurnIds :
         /\ "error" \notin Range(Kinds(t))
         /\ turn[t].remote = "none"
         /\ turn[t].pc \notin {"coldRemote", "http"}
    /\ \A i \in 1..Len(directCalls) : directCalls[i] = "throw: not configured"

C6_Witness ==
  /\ ~configured
  /\ directCalls # <<>>
  /\ \E t \in TurnIds : turn[t].pc = "done" /\ Replied(t)

\* C7: the timeline store only grows: under every sequence of addProtocol and
\* appendStep calls an existing turn is never removed, and its step sequence
\* before a call is a prefix of its step sequence after the call.
C7_TimelinesOnlyGrow ==
  [][\A t \in TurnIds :
       protocols[t].exists =>
         /\ protocols'[t].exists
         /\ IsPrefix(protocols[t].steps, protocols'[t].steps)]_vars

C7_Witness ==
  /\ lastCall.op = "appendStep"
  /\ lastCall.existed
  /\ Len(protocols[lastCall.turnId].steps) = 2

\* C8: addProtocol is idempotent: on an absent turn it creates one empty
\* timeline and changes no other turn; on an existing turn, with or without
\* steps, it leaves the store unchanged and no subscriber is notified.
C8_AddProtocolIdempotent ==
  [][lastCall'.op = "addProtocol" =>
       LET t == lastCall'.turnId
       IN  /\ \A u \in StoreKeys \ {t} : protocols'[u] = protocols[u]
           /\ IF protocols[t].exists
                THEN protocols' = protocols /\ watchers' = watchers
                ELSE protocols'[t] = EmptyTimeline]_vars

\* C9: appendStep on an absent turn creates its timeline and leaves exactly
\* [step] in it; on an existing turn the new sequence is the old one with the
\* step added at the end.
C9_AppendStepAppends ==
  [][lastCall'.op = "appendStep" =>
       LET t == lastCall'.turnId
           old == IF protocols[t].exists THEN protocols[t].steps ELSE <<>>
       IN  /\ protocols'[t].exists
           /\ protocols'[t].steps = Append(old, lastCall'.step)]_vars

\* C10: a mutation of the timeline of turn T (its creation or an append)
\* emits to every subscriber watching T and to no subscriber watching
\* another turn.
C10_OnlyWatchersOfTurnNotified ==
  [][(lastCall'.op \in {"addProtocol", "appendStep"} /\ protocols' # protocols) =>
       \A w \in Watchers :
         watchers[w].active =>
           IF watchers[w].turnId = lastCall'.turnId
             THEN Len(watchers'[w].log) > Len(watchers[w].log)
             ELSE watchers'[w].log = watchers[w].log]_vars

\* each value received keeps the turn and the steps of the one before it
LogExtends(log) ==
  \A i \in 1..(Len(log) - 1) :
    /\ log[i].exists => log[i + 1].exists
    /\ IsPrefix(log[i].steps, log[i + 1].steps)

\* C11: a subscriber of watch(T) first receives the turn's current value
\* (undefined when T does not exist yet); every appendStep on T after that
\* hands it a value whose steps end with the appended step; and the values
\* arrive in append order: each received step sequence extends the previous.
C11_WatchReplaysThenFollows ==
  /\ [](\A w \in Watchers : LogExtends(watchers[w].log))
  /\ [][\A w \in Watchers :
          /\ (~watchers[w].active /\ watchers'[w].active) =>
               watchers'[w].log =
                 <<IF protocols[watchers'[w].turnId].exists
                     THEN protocols[watchers'[w].turnId] ELSE NoTurn>>
          /\ (/\ watchers[w].active
              /\ lastCall'.op = "appendStep"
              /\ lastCall'.turnId = watchers[w].turnId) =>
               LET log == watchers'[w].log
               IN  /\ Len(log) > Len(watchers[w].log)
                   /\ log[Len(log)].exists
                   /\ log[Len(log)].steps =
                        Append(protocols[watchers[w].turnId].steps,
                               lastCall'.step)]_vars

\* C12: get(T) is undefined for a turn never created, and a value returned by
\* get, or delivered to a watcher, still shows the step sequence it had when
\* it was handed out, whatever appendStep calls followed.
C12_GetReturnsSnapshot ==
  /\ lastCall.op = "get" =>
       \E h \in held : h.ref = lastCall.turnId /\ h.defined = lastCall.existed
  /\ \A h \in held : h.defined => protocols[h.ref].steps = h.steps
  /\ \A w \in Watchers :
       \A i \in 1..Len(watchers[w].log) :
         watchers[w].log[i].exists =>
           protocols[watchers[w].turnId].steps = watchers[w].log[i].steps

\* the messages of all conversations
AllMessages ==
  UNION {Range(conversations[i].messages) : i \in 1..Len(conversations)}

\* the stages the handlers of a chain at position pc have run: route and
\* retrieve/pack in the two taps, generate in the timer callback (a chain
\* answered by the backend ran none of them); a chain torn down behind its
\* second delay had run the route stage
StagesOfChain(c) ==
  (IF c.pc \in {"delay2", "cancelledDelay2", "gen"}
        \/ (c.pc = "done" /\ c.remote # "ok")
     THEN {"route"} ELSE {})
    \cup (IF c.pc = "gen" \/ (c.pc = "done" /\ c.remote # "ok")
            THEN {"retrieve", "pack"} ELSE {})
    \cup (IF c.pc = "done" /\ c.remote # "ok"
            THEN {"generate"} ELSE {})

\* the stages the handlers of turn t have run so far, read off the positions
\* of its chains: plan at the call, the others in the chains
StagesExecuted(t) ==
  (IF turn[t].pc # "unused" THEN {"plan"} ELSE {})
    \cup UNION {StagesOfChain(ChainOf(t, s)) : s \in Chains(t)}

\* ------------------------------------------- subscribing to a result again
\* the agent messages of turn t on the conversation it was submitted on
RepliesTo(t) ==
  {<<i, j>> \in (1..Len(conversations)) \X (1..2 * (MaxResubscriptions + 2)) :
     /\ conversations[i].id = turn[t].convId
     /\ j <= Len(conversations[i].messages)
     /\ conversations[i].messages[j].role = "agent"
     /\ conversations[i].messages[j].turnId = t}

\* the steps of that type on the timeline of turn t
StepCount(t, type) ==
  Cardinality({i \in 1..Len(protocols[t].steps) :
                 protocols[t].steps[i].type = type})

\* the chains of turn t that ran that stage
ChainsThrough(t, stage) ==
  {s \in Chains(t) : stage \in StagesOfChain(ChainOf(t, s))}

\* every subscription runs the chain for itself: the timeline of a turn
\* holds a route, retrieve, pack and generate step, and the conversation a
\* reply, for each chain that ran the stage
EachSubscriptionRunsTheChain ==
  \A t \in TurnIds :
    turn[t].pc # "unused" =>
      /\ \A stage \in {"route", "retrieve", "pack", "generate"} :
           StepCount(t, stage) = Cardinality(ChainsThrough(t, stage))
      /\ Cardinality(RepliesTo(t)) >=
           Cardinality({s \in ChainsThrough(t, "generate") :
                          ChainOf(t, s).remote = "none"})

\* a local turn subscribed twice ran both chains to the end: two replies
ResubscribedLocalTurnDone ==
  \E t \in TurnIds :
    /\ turn[t].start = "cold"
    /\ Len(turn[t].again) = 1
    /\ turn[t].pc = "done" /\ turn[t].again[1].pc = "done"
    /\ Kinds(t) = <<"plan", "route", "route", "retrieve", "pack",
                    "retrieve", "pack", "generate", "generate">>
    /\ Cardinality(RepliesTo(t)) = 2

\* a remote turn subscribed twice made two requests, and both failed
ResubscribedRemoteTurnFailedTwice ==
  \E t \in TurnIds :
    /\ turn[t].start = "coldRemote"
    /\ Len(turn[t].again) = 1
    /\ httpRequests = 2
    /\ turn[t].pc = "done" /\ turn[t].again[1].pc = "done"
    /\ Kinds(t) = <<"plan", "error", "plan", "error", "plan", "route",
                    "route", "retrieve", "pack", "retrieve", "pack",
                    "generate", "generate">>
    /\ Cardinality(RepliesTo(t)) = 2

\* a chain torn down by unsubscribe is started again by a later subscription
ResubscribedAfterUnsubscribe ==
  \E t \in TurnIds :
    /\ turn[t].pc = "cancelledDelay1"
    /\ Len(turn[t].again) = 1
    /\ turn[t].again[1].pc = "done"

\* C13: in every reachable state each message that carries a turn identifier
\* has its timeline in the store under that identifier, and that timeline
\* holds a step for every stage run so far for that turn.
C13_MessagesHaveTimelines ==
  \A m \in AllMessages :
    m.turnId # 0 =>
      /\ m.turnId \in DOMAIN protocols
      /\ protocols[m.turnId].exists
      /\ StagesExecuted(m.turnId) \subseteq Range(Kinds(m.turnId))

C13_Witness ==
  \E t, u \in TurnIds :
    /\ turn[t].pc = "done" /\ turn[t].remote = "none" /\ Replied(t)
    /\ StagesExecuted(t) = Range(LocalOrder)
    /\ turn[u].pc = "gen"
    /\ \E m \in AllMessages : m.turnId = u /\ m.role = "user"

\* the timeline of turn t holds all the steps of its path
TimelineComplete(t) ==
  IF turn[t].remote = "ok" THEN "plan" \in Range(Kinds(t))
  ELSE Range(LocalOrder) \subseteq Range(Kinds(t))

\* C14: when the caller unsubscribes from the result of sendMessage at any
\* point after subscribing, the turn still runs to its end: the remaining
\* steps are recorded, the reply is appended, and the agents of a lone turn
\* are back to idle.
C14_UnsubscribedTurnCompletes ==
  \A t \in TurnIds :
    turn[t].unsub ~>
      (/\ Replied(t)
       /\ TimelineComplete(t)
       /\ (\A u \in TurnIds \ {t} : turn[u].pc = "unused") =>
            \A a \in AgentIds : agents[a] = "idle")

\* the messages of the conversation with that id
MessagesIn(convId) ==
  LET i == CHOOSE i \in 1..Len(conversations) : conversations[i].id = convId
  IN  conversations[i].messages

\* the steps of a finished turn: plan first; unless the backend answered, the
\* five local steps last
AllStepsRecorded(t) ==
  /\ Kinds(t) # <<>>
  /\ Kinds(t)[1] = "plan"
  /\ turn[t].remote # "ok" =>
       /\ Len(Kinds(t)) >= Len(LocalOrder)
       /\ SubSeq(Kinds(t), Len(Kinds(t)) - Len(LocalOrder) + 1, Len(Kinds(t)))
            = LocalOrder

\* m is a reply of turn t by that agent
IsReply(m, t, agentId) ==
  m.role = "agent" /\ m.turnId = t /\ m.agentId = agentId

\* msgs is the user message of turn t followed by its agent reply
ExchangeOf(t, msgs) ==
  /\ Len(msgs) = 2
  /\ msgs[1] = UserMessage(t, turn[t].safeContent)
  /\ IsReply(msgs[2], t, turn[t].agentId)

\* C15: when two turns were submitted on the same conversation, however their
\* stages interleaved, once both are finished the conversation holds the user
\* message and the agent reply of each, and each timeline holds all the steps
\* of its turn.
C15_NoAppendLost ==
  \A t, u \in TurnIds :
    (/\ t # u
     /\ turn[t].pc = "done" /\ turn[u].pc = "done"
     /\ turn[t].convId = turn[u].convId) =>
      /\ ExchangeOf(t, SelectSeq(MessagesIn(turn[t].convId),
                                 LAMBDA m : m.turnId = t))
      /\ ExchangeOf(u, SelectSeq(MessagesIn(turn[t].convId),
                                 LAMBDA m : m.turnId = u))
      /\ AllStepsRecorded(t)
      /\ AllStepsRecorded(u)

\* both turns are finished and were in flight together: the second one was
\* submitted before the first was answered, and answered first
C15_Witness ==
  /\ turn[1].pc = "done" /\ turn[2].pc = "done"
  /\ turn[1].convId = turn[2].convId
  /\ LET msgs == MessagesIn(turn[1].convId)
     IN  \E i, j \in 1..Len(msgs) :
           /\ i < j
           /\ IsReply(msgs[i], 2, turn[2].agentId)
           /\ IsReply(msgs[j], 1, turn[1].agentId)

NoEdgeWhitespace(s) ==
  s = <<>> \/ (s[1] \notin Whitespace /\ s[Len(s)] \notin Whitespace)

NoWhitespaceRun(s) ==
  \A i \in 1..(Len(s) - 1) : ~(s[i] \in Whitespace /\ s[i + 1] \in Whitespace)

\* C17: for every input text the stored user message is in sanitized form:
\* its content has no leading or trailing whitespace, no run of two or more
\* whitespace characters, and at most 4000 characters.
C17_StoredUserMessageSanitized ==
  \A m \in AllMessages :
    m.role = "user" =>
      /\ NoEdgeWhitespace(m.content)
      /\ NoWhitespaceRun(m.content)
      /\ Len(m.content) <= ContentCap

\* the text is empty or whitespace only, or longer than the cap
EmptyOrOversized(text) ==
  (\A i \in 1..Len(text) : text[i] \in Whitespace) \/ Len(text) > ContentCap

\* C18: empty or oversized text is never rejected by sendMessage: the call
\* is possible with it, it creates the turn's timeline and appends the user
\* message, and once subscribed the turn runs to an agent reply.
C18_DegenerateTextStillAnswered ==
  /\ [](nextTurn = 1 =>
          \A c \in Texts : EmptyOrOversized(c) => ENABLED SendMessage(c, FreshId))
  /\ [](\A t \in TurnIds :
          (turn[t].pc # "unused" /\ EmptyOrOversized(turn[t].content)) =>
            /\ protocols[t].exists
            /\ \E m \in AllMessages : m.role = "user" /\ m.turnId = t)
  /\ \A t \in TurnIds :
       (Subscribed(t) /\ EmptyOrOversized(turn[t].content)) ~> Replied(t)

\* a whitespace-only text was submitted on the local path and answered
C18_Witness ==
  \E t \in TurnIds :
    /\ turn[t].content # <<>>
    /\ turn[t].safeContent = <<>>
    /\ turn[t].remote = "none"
    /\ Replied(t)
    /\ "generate" \in Range(Kinds(t))

\* C19: on the local path the query recorded in the retrieve step is the
\* output of the reformulation heuristic computed at the plan stage, so it
\* contains no filler phrase and has at most 10 tokens.
C19_RetrievalQueryIsReformulation ==
  \A t \in TurnIds :
    \A i \in 1..Len(protocols[t].steps) :
      protocols[t].steps[i].type = "retrieve" =>
        LET query == protocols[t].steps[i].query
        IN  /\ query = turn[t].reformulated
            /\ ~ContainsFiller(query)
            /\ Len(Split(query)) <= MaxQueryTokens

\* the key the evidence is compared by: the lower-cased title, or the
\* lower-cased source when there is no title
NormalizedKey(c) == ToLowerCase(IF c.title = <<>> THEN c.source ELSE c.title)

\* C20: the evidence list retrieval produces never holds two items with the
\* same normalized key, whatever the candidate list.
C20_EvidenceKeysDistinct ==
  \A r \in Range(ranked) :
    \A i, j \in 1..Len(r.chunks) :
      i # j => NormalizedKey(r.chunks[i]) # NormalizedKey(r.chunks[j])

\* candidates that collide through letter case and through title against
\* source were ranked, and two distinct ones remain
C20_Witness ==
  \E r \in Range(ranked) :
    /\ Len(r.candidates) = 3
    /\ Len(r.chunks) = 2
    /\ \E i, j \in 1..3 :
         /\ r.candidates[i].title = <<"A">>
         /\ r.candidates[j].title = <<>> /\ r.candidates[j].source = <<"a">>

\* C21: the evidence list retrieval produces is sorted by descending score,
\* an item without a score counting as score 0, and holds at most 5 items.
C21_EvidenceSortedAndCapped ==
  \A r \in Range(ranked) :
    /\ Len(r.chunks) <= TopK
    /\ \A i \in 1..(Len(r.chunks) - 1) :
         ScoreOrZero(r.chunks[i]) >= ScoreOrZero(r.chunks[i + 1])

\* six candidates with different keys were ranked, the first of them without
\* a score: five remain, a scored one leads and an unscored one is among them
C21_Witness ==
  \E r \in Range(ranked) :
    /\ Len(r.candidates) = TopK + 1
    /\ Len(r.chunks) = TopK
    /\ r.candidates[1].score = <<>>
    /\ r.chunks[1].score = <<90>>
    /\ \E i \in 1..Len(r.chunks) : r.chunks[i].score = <<>>

\* C22: the context window packed for an evidence list of n items has
\* exactly 2 + min(3, n) items: first a system item, then a history item,
\* then only retrieval items, built from the first min(3, n) evidence items
\* in their ranked order.
C22_ContextWindowShape ==
  \A r \in Range(ranked) :
    LET n == Len(r.chunks)
        w == r.contextItems
    IN  /\ Len(w) = 2 + Min(PackedChunks, n)
        /\ w[1].type = "system"
        /\ w[2].type = "history"
        /\ \A i \in 3..Len(w) :
             /\ w[i].type = "retrieval"
             /\ w[i].origin = r.chunks[i - 2].source
             /\ w[i].text.body = TitleOrSource(r.chunks[i - 2])
             /\ w[i].text.snippet = r.chunks[i - 2].snippet

\* an evidence list of five items was packed into five context items
C22_Witness ==
  \E r \in Range(ranked) :
    /\ Len(r.chunks) = TopK
    /\ Len(r.contextItems) = 2 + PackedChunks
    /\ r.contextItems[3].text.body = r.chunks[1].title

\* the steps a backend response supplies, as applyBackendProtocol builds them
SuppliedSteps(items) == [i \in 1..Len(items) |-> BackendStep(items[i])]

\* C23: when the backend's response of a turn has been processed, the turn is
\* finished on the remote path: the timeline was [plan] and gains exactly the
\* supplied steps in the order returned, all of them before the reply is
\* pushed; the planner is set to idle after that; and no handler of a local
\* stage runs for the turn: no chain of it goes through route, retrieve,
\* pack or generate and no agent is set to retrieving or responding by it.
C23_RemoteSuccessEndsOnRemotePath ==
  /\ [][\A t \in TurnIds : \A res \in Responses :
          (HttpSuccess(t, res) /\ turn'[t].remote = "ok") =>
            /\ protocols[t].steps = <<RemotePlanStep>>
            /\ protocols'[t].steps =
                 <<RemotePlanStep>> \o SuppliedSteps(res.protocol)
            /\ turn'[t].events =
                 turn[t].events
                   \o [i \in 1..Len(res.protocol) |->
                         StepEvent(BackendStep(res.protocol[i]))]
                   \o <<ReplyEvent, AgentEvent("planner", "idle")>>
            /\ agents'["planner"] = "idle"
            /\ turn'[t].pc = "done"]_vars
  /\ [](\A t \in TurnIds :
          turn[t].remote = "ok" =>
            /\ turn[t].pc = "done"
            /\ Replied(t)
            /\ StagesExecuted(t) = {"plan"}
            /\ \A e \in Range(turn[t].events) :
                 e.kind = "agent" => e.what \in {"thinking", "idle"})

\* a response with two steps, one of them a route step by the planner, was
\* merged and answered
C23_Witness ==
  \E t \in TurnIds :
    /\ turn[t].remote = "ok"
    /\ Replied(t)
    /\ protocols[t].steps =
         <<RemotePlanStep, BackendStep("route"), BackendStep("notype")>>
    /\ agents["planner"] = "idle"

\* some turn was submitted and every submitted turn has finished
AllTurnsFinished ==
  /\ \E t \in TurnIds : turn[t].pc = "done"
  /\ \A t \in TurnIds : turn[t].pc \in {"unused", "done"}

\* C24: whenever every submitted turn has finished, by the local path, by
\* remote success or by remote failure and fallback, the planner, the
\* researcher and the writer all have status idle.
C24_IdleWhenAllTurnsFinished ==
  AllTurnsFinished => \A a \in AgentIds : agents[a] = "idle"

\* two turns are finished, one answered by the backend and one by the
\* fallback after a failed call, the fallback's turn having finished first
C24_Witness ==
  /\ AllTurnsFinished
  /\ turn[1].remote = "callFailed" /\ turn[2].remote = "ok"
  /\ \A a \in AgentIds : agents[a] = "idle"
  /\ LET msgs == MessagesIn(turn[1].convId)
     IN  /\ turn[2].convId = turn[1].convId
         /\ IsReply(msgs[Len(msgs)], 2, turn[2].agentId)

\* in the log of a turn's handlers, every setAgentState of the agent to
\* retrieving or responding comes after one to thinking, with none to idle
\* in between
ThinksBeforeActing(log, a) ==
  \A i \in 1..Len(log) :
    (/\ log[i].kind = "agent" /\ log[i].who = a
     /\ log[i].what \in {"retrieving", "responding"}) =>
      \E j \in 1..(i - 1) :
        /\ log[j] = AgentEvent(a, "thinking")
        /\ \A k \in (j + 1)..(i - 1) : log[k] # AgentEvent(a, "idle")

\* C25: within a turn each agent's status follows idle, thinking,
\* retrieving/responding, idle: no agent is set to retrieving or responding
\* by the turn without having been set to thinking since it was last idle.
C25_AgentsThinkBeforeActing ==
  \A t \in TurnIds : \A a \in AgentIds : ThinksBeforeActing(turn[t].events, a)

\* C26: what an observer obtained from getAgents() or watchActiveAgent()
\* before or during a turn shows every later status change: each agent in it
\* has the status the service currently holds for that agent.
C26_RosterShowsLiveState ==
  \A i \in 1..Len(rosters) :
    \A a \in DOMAIN rosters[i].shown : rosters[i].shown[a] = agents[a]

\* the value is not a number: null, a boolean, or a string that is empty,
\* blank or not numeric
NotANumber(v) ==
  \/ v.type \in {"null", "boolean"}
  \/ v.type = "string" /\ \E i \in 1..Len(v.chars) : v.chars[i] \notin Digits
  \/ v.type = "string" /\ v.chars = <<>>

\* the reply of turn t in its conversation
ReplyOf(t) ==
  LET msgs == MessagesIn(turn[t].convId)
  IN  msgs[CHOOSE j \in 1..Len(msgs) :
             msgs[j].role = "agent" /\ msgs[j].turnId = t]

\* C27: a parameter, token count or latency the backend supplied that is not
\* a number is omitted from the reply's model-call info, never turned into 0
\* or another number.
C27_NonNumericFieldsOmitted ==
  \A t \in TurnIds :
    (turn[t].remote = "ok" /\ turn[t].llm # <<>>) =>
      LET raw == turn[t].llm[1]
          llm == ReplyOf(t).llm[1]
      IN  /\ \A k \in DOMAIN raw.params :
               NotANumber(raw.params[k]) => k \notin DOMAIN llm.params
          /\ NotANumber(raw.tokens.prompt) => llm.tokens.prompt = <<>>
          /\ NotANumber(raw.tokens.completion) => llm.tokens.completion = <<>>
          /\ NotANumber(raw.tokens.total) => llm.tokens.total = <<>>
          /\ NotANumber(raw.latencyMs) => llm.latencyMs = <<>>


\* turn t was submitted with no backend configured: it runs the local path
LocalTurn(t) ==
  ~configured /\ turn[t].pc # "unused" /\ turn[t].remote = "none"

\* the steps of turn t that have the given type
StepsOfType(t, type) ==
  SelectSeq(protocols[t].steps, LAMBDA s : s.type = type)

\* the items of the retrieve steps and the context windows of the pack steps
RetrievedItems(t) ==
  [i \in 1..Len(StepsOfType(t, "retrieve")) |->
     StepsOfType(t, "retrieve")[i].items]
PackedItems(t) ==
  [i \in 1..Len(StepsOfType(t, "pack")) |->
     StepsOfType(t, "pack")[i].contextWindow]

\* C28: two local-path turns with the same user text and different selected
\* agents, at the same point of the pipeline, have the same sequence of step
\* kinds, the same retrieve items and the same pack items; once both have
\* replied, the two replies quote the same request, list the same evidence
\* lines and carry the same retrieval context: only preface and style line
\* may differ.
C28_PersonaChangesOnlyFraming ==
  \A t, u \in TurnIds :
    ( /\ LocalTurn(t) /\ LocalTurn(u)
      /\ turn[t].safeContent = turn[u].safeContent
      /\ turn[t].agentId # turn[u].agentId
      /\ turn[t].pc = turn[u].pc ) =>
      /\ Kinds(t) = Kinds(u)
      /\ RetrievedItems(t) = RetrievedItems(u)
      /\ PackedItems(t) = PackedItems(u)
      /\ (Replied(t) /\ Replied(u)) =>
            /\ ReplyOf(t).content.bullets = ReplyOf(u).content.bullets
            /\ ReplyOf(t).content.ask = ReplyOf(u).content.ask
            /\ ReplyOf(t).context = ReplyOf(u).context

\* two finished local turns answered by different personas: the prefaces
\* differ and the replies list evidence
C28_Witness ==
  \E t, u \in TurnIds :
    /\ LocalTurn(t) /\ LocalTurn(u)
    /\ turn[t].pc = "done" /\ turn[u].pc = "done"
    /\ turn[t].agentId = "planner" /\ turn[u].agentId # "planner"
    /\ turn[t].safeContent = turn[u].safeContent
    /\ Replied(t) /\ Replied(u)
    /\ ReplyOf(t).content.preface # ReplyOf(u).content.preface
    /\ ReplyOf(t).content.styleHint # ReplyOf(u).content.styleHint
    /\ ReplyOf(t).content.bullets # <<>>
    /\ RetrievedItems(t) # <<>> /\ PackedItems(t) # <<>>

\* C29: a conversation, once created, changes only by gaining messages at its
\* end (the updated-timestamp is not modelled): every step keeps each
\* conversation, with the same identifier, title, created-timestamp and
\* assigned agent, and with its messages as the first messages of the new
\* sequence.
C29_ConversationChangesOnlyByAppend ==
  [][\A i \in 1..Len(conversations) :
       \E j \in 1..Len(conversations') :
         /\ conversations'[j].id = conversations[i].id
         /\ conversations'[j].title = conversations[i].title
         /\ conversations'[j].createdAt = conversations[i].createdAt
         /\ conversations'[j].agentId = conversations[i].agentId
         /\ IsPrefix(conversations[i].messages, conversations'[j].messages)]_vars

\* QaPageComponent.resolveLatestAssistantReply: the last agent message of
\* the active conversation, <<message>> or <<>> when there is none
ResolveLatestAssistantReply ==
  LET msgs == MessagesIn(activeConversationId)
      fromAgent == SelectSeq(msgs, LAMBDA m : m.role = "agent")
  IN  IF fromAgent = <<>> THEN <<>> ELSE <<fromAgent[Len(fromAgent)]>>

\* the observable of turn t emits the user message in this step
Emits(t) ==
  "next" \notin Range(turn[t].obs) /\ "next" \in Range(turn'[t].obs)

\* C30: in every step in which the observable of a turn emits the user
\* message, the reply of that turn is in its conversation and, when that
\* conversation is the active one, the last agent message of the active
\* conversation, as the Q&A page looks it up, is that reply.
C30_ReplyAppendedWhenEmitted ==
  [][\A t \in TurnIds :
       Emits(t) =>
         /\ Replied(t)'
         /\ activeConversationId' = turn[t].convId =>
              /\ ResolveLatestAssistantReply' # <<>>
              /\ ResolveLatestAssistantReply'[1].turnId = t]_vars

\* on the remote path the reply is appended before the emission, and is the
\* last agent message of its conversation at that moment
RemoteReplyAppendedWhenEmitted ==
  [][\A t \in TurnIds :
       (Emits(t) /\ turn'[t].remote = "ok") =>
         /\ Replied(t)'
         /\ activeConversationId' = turn[t].convId =>
              /\ ResolveLatestAssistantReply' # <<>>
              /\ ResolveLatestAssistantReply'[1].turnId = t]_vars

\* C31: when newConversation returns, the latest value delivered to a
\* subscriber of watchActiveConversation is the conversation just created.
C31_WatcherSeesNewConversation ==
  [][(watched.subscribed /\ Len(conversations') > Len(conversations)) =>
       /\ watched'.latest # <<>>
       /\ watched'.latest[1].id = activeConversationId'
       /\ watched'.latest[1] = conversations'[1]]_vars

\* C32: of the candidates that share a normalized key, the one kept in the
\* evidence list has the highest score among them (a missing score counting
\* as 0).
C32_DedupKeepsHighestScore ==
  \A r \in Range(ranked) :
    \A i \in 1..Len(r.chunks) :
      \A j \in 1..Len(r.candidates) :
        NormalizedKey(r.candidates[j]) = NormalizedKey(r.chunks[i]) =>
          ScoreOrZero(r.chunks[i]) >= ScoreOrZero(r.candidates[j])

\* three candidates were ranked, two of them with one key and different
\* scores: the one with the higher score is in the evidence, the other is not
C32_Witness ==
  \E r \in Range(ranked) :
    /\ Len(r.candidates) = 3
    /\ Len(r.chunks) = 2
    /\ \E i, j \in 1..3 :
         /\ NormalizedKey(r.candidates[i]) = NormalizedKey(r.candidates[j])
         /\ r.candidates[i].score = <<90>>
         /\ r.candidates[j].score = <<50>>
         /\ r.candidates[i] \in Range(r.chunks)
         /\ r.candidates[j] \notin Range(r.chunks)

\* the positions of an event in the log of turn t
EventPlaces(t, e) ==
  {i \in 1..Len(turn[t].events) : turn[t].events[i] = e}

\* C33: on the local path the reply message is appended before the generate
\* step is recorded, the writer is set to idle only after the generate step
\* is recorded, and the generate step's output text is the reply's content.
C33_ReplyThenGenerateThenIdle ==
  \A t \in TurnIds :
    LET replies == EventPlaces(t, ReplyEvent)
        generates == EventPlaces(t, GenerateEvent)
        idles == EventPlaces(t, AgentEvent("writer", "idle"))
    IN  /\ \A g \in generates : \E r \in replies : r < g
        /\ \A i \in idles : \E g \in generates : g < i
        /\ \A s \in Range(StepsOfType(t, "generate")) :
             /\ Replied(t)
             /\ s.output = <<ReplyOf(t).content>>

\* a turn ran the generation callback: its reply, its generate step with the
\* reply's text and the writer's return to idle are on record
C33_Witness ==
  \E t \in TurnIds :
    /\ turn[t].pc = "done"
    /\ EventPlaces(t, GenerateEvent) # {}
    /\ EventPlaces(t, AgentEvent("writer", "idle")) # {}
    /\ Len(StepsOfType(t, "generate")) = 1
    /\ StepsOfType(t, "generate")[1].output = <<ReplyOf(t).content>>
    /\ ReplyOf(t).content.bullets # <<>>

\* the sum of the estimates of the first n items of a context window
RECURSIVE EstimatesUpTo(_, _)
EstimatesUpTo(w, n) ==
  IF n = 0 THEN 0 ELSE EstimatesUpTo(w, n - 1) + w[n].tokens

\* C34: the system item's estimate is 16, the history item's is
\* min(24 + floor(len / 3), 256) for the length of the user's text, each
\* retrieval item's is min(60 + floor(len / 4), 200) for the length of its
\* snippet; the prompt token count of the model-call info is the sum of the
\* estimates of the packed items, at most 16 + 256 + 3 * 200, and the total
\* is the prompt count plus the completion count 160.
C34_TokenEstimatesClampedAndSummed ==
  \A r \in Range(ranked) :
    LET w == r.contextItems
    IN  /\ \A i \in 1..Len(w) :
             /\ w[i].type = "system" => w[i].tokens = 16
             /\ w[i].type = "history" =>
                  /\ w[i].tokens <= 256
                  /\ w[i].tokens = Min(24 + (Len(r.safeContent) \div 3), 256)
             /\ w[i].type = "retrieval" =>
                  /\ w[i].tokens <= 200
                  /\ w[i].tokens =
                       Min(60 + (SnippetLength(r.chunks[i - 2].snippet) \div 4),
                           200)
        /\ r.tokens.prompt = <<EstimatesUpTo(w, Len(w))>>
        /\ r.tokens.prompt[1] <= 16 + 256 + 3 * 200
        /\ r.tokens.completion = <<160>>
        /\ r.tokens.total = <<r.tokens.prompt[1] + 160>>

\* a text as long as the cap was packed with three long snippets: every
\* estimate is at its ceiling and the prompt count at its maximum
C34_Witness ==
  \E r \in Range(ranked) :
    /\ Len(r.safeContent) = ContentCap
    /\ Len(r.contextItems) = 5
    /\ r.contextItems[2].tokens = 256
    /\ \A i \in 3..5 : r.contextItems[i].tokens = 200
    /\ r.tokens.prompt = <<872>>
    /\ r.tokens.total = <<1032>>

\* the records of one local turn agree: the reply's evidence is the
\* retrieve step's item list, the reply text cites the first min(3, n) of
\* the n items, the pack step's window holds those after its first two
\* items, and the generate step counts the window's items
RecordsAgree(retrieve, pack, generate, reply) ==
  LET items == retrieve.items
      window == pack.contextWindow
      k == Min(3, Len(items))
  IN  /\ reply.context # <<>>
      /\ reply.context[1].chunks = items
      /\ Len(reply.content.bullets) = k
      /\ \A i \in 1..k :
           /\ reply.content.bullets[i].label = TitleOrSource(items[i])
           /\ reply.content.bullets[i].snippet = items[i].snippet
      /\ Len(window) = 2 + k
      /\ \A i \in 1..Len(window) :
           (window[i].type = "retrieval") = (i > 2)
      /\ \A i \in 1..k :
           /\ window[i + 2].text.body = TitleOrSource(items[i])
           /\ window[i + 2].text.snippet = items[i].snippet
           /\ window[i + 2].origin = items[i].source
      /\ generate.packedItems = <<Len(window)>>

\* C35: the records of a turn that ran the local path agree: the evidence
\* attached to the reply is the item list of the retrieve step, in the same
\* order; the evidence lines of the reply text are the first min(3, n) of
\* those items, which are the items packed as retrieval in the pack step;
\* and packedItems of the generate step is the length of the pack step's
\* context window. So it is for the turns run, whose evidence has four
\* items, and for the records of a turn with evidence of any length.
C35_TurnRecordsAgree ==
  /\ \A t \in TurnIds :
       StepsOfType(t, "generate") # <<>> =>
         /\ Len(StepsOfType(t, "retrieve")) = 1
         /\ Len(StepsOfType(t, "pack")) = 1
         /\ Len(StepsOfType(t, "generate")) = 1
         /\ Replied(t)
         /\ RecordsAgree(StepsOfType(t, "retrieve")[1],
                         StepsOfType(t, "pack")[1],
                         StepsOfType(t, "generate")[1], ReplyOf(t))
  /\ \A r \in Range(ranked) :
       RecordsAgree(r.retrieve, r.pack, r.generate, r.reply)

\* a turn ran the local path to its end for a text that reaches the
\* snippets: four items retrieved, three cited and packed, five items in the
\* window; and the records for an evidence list of two items cite and pack
\* two
C35_Witness ==
  /\ \E t \in TurnIds :
       /\ turn[t].pc = "done"
       /\ Len(StepsOfType(t, "generate")) = 1
       /\ Len(StepsOfType(t, "retrieve")[1].items) = 4
       /\ StepsOfType(t, "retrieve")[1].items[1].snippet.echo # <<>>
       /\ Len(ReplyOf(t).content.bullets) = 3
       /\ StepsOfType(t, "generate")[1].packedItems = <<5>>
  /\ \E r \in Range(ranked) :
       /\ Len(r.retrieve.items) = 2
       /\ Len(r.reply.content.bullets) = 2
       /\ Len(r.pack.contextWindow) = 4
       /\ r.generate.packedItems = <<4>>

\* the messages of turn t that the conversation with that id holds
MessagesOfTurn(t, convId) ==
  SelectSeq(MessagesIn(convId), LAMBDA m : m.turnId = t)

\* C36: a turn is bound to the conversation and the agent that were active
\* when it was submitted. Every message of the turn is in the conversation
\* the turn was submitted in, and its reply carries the agent selected then;
\* when the reply is appended while another conversation is active or
\* another agent is selected, the other conversations stay as they are.
C36_TurnBoundToConversationAndAgent ==
  /\ [](\A t \in TurnIds :
          \A i \in 1..Len(conversations) :
            \A j \in 1..Len(conversations[i].messages) :
              conversations[i].messages[j].turnId = t =>
                /\ conversations[i].id = turn[t].convId
                /\ conversations[i].messages[j].role = "agent" =>
                     conversations[i].messages[j].agentId = turn[t].agentId)
  /\ [][\A t \in TurnIds :
          (turn[t].pc # "unused" /\ ~Replied(t) /\ Replied(t)') =>
            \A i \in 1..Len(conversations) :
              conversations[i].id # turn[t].convId =>
                conversations'[i] = conversations[i]]_vars

\* a turn submitted in the first conversation with the planner selected has
\* its reply there, from the planner, while a new, empty conversation is
\* active and the researcher is selected
C36_Witness ==
  \E t \in TurnIds :
    /\ turn[t].convId = 1 /\ turn[t].agentId = "planner"
    /\ activeConversationId = 2 /\ activeAgentId = "researcher"
    /\ Replied(t)
    /\ ReplyOf(t).agentId = "planner"
    /\ Len(MessagesOfTurn(t, 1)) = 2
    /\ MessagesIn(2) = <<>>

\* where the agent messages of turn t are: conversation and position
ReplyPlaces(t) ==
  {<<i, j>> \in (1..Len(conversations)) \X (1..(2 * MaxTurns + 1)) :
     /\ j <= Len(conversations[i].messages)
     /\ conversations[i].messages[j].role = "agent"
     /\ conversations[i].messages[j].turnId = t}

\* C37: a turn never has more than one agent reply, also when the remote
\* attempt fails and the local path runs after it.
C37_AtMostOneReply ==
  \A t \in TurnIds : Cardinality(ReplyPlaces(t)) <= 1

\* a turn whose backend response could not be merged ran the local path to
\* its end and has its one reply
C37_Witness ==
  \E t \in TurnIds :
    /\ turn[t].remote = "procFailed"
    /\ turn[t].pc = "done"
    /\ "error" \in Range(Kinds(t))
    /\ Cardinality(ReplyPlaces(t)) = 1

\* the step came with the backend's response
BackendSupplied(s) ==
  \E item \in BackendItems \ {"null"} : s = BackendStep(item)

\* C38: a turn whose timeline holds the error step of a fallback and steps of
\* the local path holds no step supplied by the backend, also when the
\* processing of the response failed partway through the returned steps.
C38_NoBackendStepsAfterFallback ==
  \A t \in TurnIds :
    (ErrorStep \in Range(protocols[t].steps)
       /\ RouteStep \in Range(protocols[t].steps)) =>
      \A s \in Range(protocols[t].steps) : ~BackendSupplied(s)

=============================================================================
